---- MODULE Spec2Model ----
(***************************************************************************)
(* Model of backend/routes/mouse_listener.py: the mouse-button to keyboard *)
(* shortcut engine (mapping load, shortcut parser and cache, executor,     *)
(* history window, sequence matcher, deferred single key, lifecycle).      *)
(*                                                                         *)
(* Strings that the code takes apart (shortcuts) are sequences of          *)
(* one-character strings.  Time is counted in ticks of 0.1 s.              *)
(***************************************************************************)
EXTENDS Integers, Sequences, FiniteSets, TLC

VARIABLES
    is_listening,       \* module global is_listening
    listener_threads,   \* number of threads running _run_windows_listener
    button_mappings,    \* module global: keyType -> action
    sequence_mappings,  \* module global: list of [sequence, action, name]
    key_history,        \* module global: list of <<key_type, timestamp>>
    pending_single_key, \* module global: <<key_type, action, timestamp>> or None
    pending_timer,      \* module global: id of a Timer, or NoTimer
    timers,             \* threading.Timer objects started and not yet fired or cancelled
    shortcut_cache,     \* module global _shortcut_cache
    now,                \* time.time(), in ticks
    calls,              \* keyboard_controller calls issued by the last direct execution
    ret,                \* what the last lifecycle call or direct execution returned
    events,             \* log: button releases handled since the last successful stop
    execs,              \* log: execute_shortcut calls made since the last successful stop
    reloaded,           \* log: a load ran after the first logged button release
    last_match,         \* log: outcome of the matcher in the last handle_mouse_button
    mrecords,           \* input of the matcher, loader and parser specifications: raw records
    pc                  \* threads that run step by step: their position and locals

vars == <<is_listening, listener_threads, button_mappings, sequence_mappings,
          key_history, pending_single_key, pending_timer, timers, shortcut_cache,
          now, calls, ret, events, execs, reloaded, last_match, mrecords, pc>>

(***************************************************************************)
(* Program constants (ticks of 0.1 s) and bounds of the model.             *)
(***************************************************************************)
SEQUENCE_TIMEOUT == 5
SINGLE_KEY_DELAY == 3
RestartPause == 5
HistoryCap == 20

MaxTime == 6
MaxEvents == 2
MaxTimers == 2
MaxThreads == 1

MaxFailAt == 6
MaxHist == 4
MaxRecords == 3
MaxSeqLen == 2
MaxBurst == 21
BurstTime == 2
MaxCallers == 2
MaxParts == 2
MaxRestartThreads == 2

None == <<>>
NoTimer == 0
EmptyMap == [x \in {} |-> x]

(***************************************************************************)
(* Small helpers on sequences.                                             *)
(***************************************************************************)
Reverse(s) == [i \in 1..Len(s) |-> s[Len(s) + 1 - i]]

Range(s) == {s[i] : i \in 1..Len(s)}

LastN(s, n) == IF Len(s) <= n THEN s ELSE SubSeq(s, Len(s) - n + 1, Len(s))

(***************************************************************************)
(* Key tokens: pynput Key members and plain characters.                    *)
(***************************************************************************)
KeyTok(name) == <<"Key", name, 0>>

FKey(n) == <<"Key", "f", n>>

CharTok(c) == <<"char", c, 0>>

(***************************************************************************)
(* str.lower(), str.split('+'), str.strip() and int() on character         *)
(* sequences.                                                              *)
(***************************************************************************)
UpperLetters == <<"A","B","C","D","E","F","G","H","I","J","K","L","M",
                  "N","O","P","Q","R","S","T","U","V","W","X","Y","Z">>

LowerLetters == <<"a","b","c","d","e","f","g","h","i","j","k","l","m",
                  "n","o","p","q","r","s","t","u","v","w","x","y","z">>

Digits == <<"0","1","2","3","4","5","6","7","8","9">>

Whitespace == {" ", "\t"}

LowerChar(c) ==
    IF \E i \in 1..26 : UpperLetters[i] = c
    THEN LowerLetters[CHOOSE i \in 1..26 : UpperLetters[i] = c]
    ELSE c

Lower(s) == [i \in 1..Len(s) |-> LowerChar(s[i])]

RECURSIVE SplitPlus(_)
SplitPlus(s) ==
    IF \E i \in 1..Len(s) : s[i] = "+"
    THEN LET i == CHOOSE j \in 1..Len(s) :
                      s[j] = "+" /\ \A k \in 1..(j - 1) : s[k] # "+"
         IN  <<SubSeq(s, 1, i - 1)>> \o SplitPlus(SubSeq(s, i + 1, Len(s)))
    ELSE <<s>>

RECURSIVE Strip(_)
Strip(s) ==
    IF s = <<>> THEN s
    ELSE IF s[1] \in Whitespace THEN Strip(Tail(s))
    ELSE IF s[Len(s)] \in Whitespace THEN Strip(SubSeq(s, 1, Len(s) - 1))
    ELSE s

IsDigit(c) == \E i \in 1..10 : Digits[i] = c

DigitVal(c) == (CHOOSE i \in 1..10 : Digits[i] = c) - 1

RECURSIVE DigitsValue(_, _)
DigitsValue(s, acc) ==
    IF s = <<>> THEN acc
    ELSE IF s[1] = "_" THEN DigitsValue(Tail(s), acc)
    ELSE DigitsValue(Tail(s), 10 * acc + DigitVal(s[1]))

\* digits, with single underscores allowed between two digits
WellFormedDigits(s) ==
    /\ s # <<>>
    /\ IsDigit(s[1]) /\ IsDigit(s[Len(s)])
    /\ \A i \in 1..Len(s) : IsDigit(s[i]) \/ s[i] = "_"
    /\ \A i \in 1..(Len(s) - 1) : ~(s[i] = "_" /\ s[i + 1] = "_")

\* the value of a literal: its digits, negated after a minus sign
IntOfBody(body, negative) ==
    IF WellFormedDigits(body)
    THEN [ok |-> TRUE, val |-> IF negative THEN 0 - DigitsValue(body, 0)
                               ELSE DigitsValue(body, 0)]
    ELSE [ok |-> FALSE, val |-> 0]

\* one sign is allowed in front of the digits
IntOfStripped(t) ==
    IF t # <<>> /\ t[1] \in {"-", "+"}
    THEN IntOfBody(Tail(t), t[1] = "-")
    ELSE IntOfBody(t, FALSE)

\* int(text): surrounding whitespace is ignored
IntParse(text) == IntOfStripped(Strip(text))

(***************************************************************************)
(* _modifier_map and _special_keys.                                        *)
(***************************************************************************)
_modifier_map ==
    ( <<"c","t","r","l">> :> KeyTok("ctrl") ) @@
    ( <<"c","m","d">> :> KeyTok("cmd") ) @@
    ( <<"a","l","t">> :> KeyTok("alt") ) @@
    ( <<"s","h","i","f","t">> :> KeyTok("shift") ) @@
    ( <<"w","i","n">> :> KeyTok("cmd") )

_special_keys ==
    ( <<"e","n","t","e","r">> :> KeyTok("enter") ) @@
    ( <<"t","a","b">> :> KeyTok("tab") ) @@
    ( <<"s","p","a","c","e">> :> KeyTok("space") ) @@
    ( <<"b","a","c","k","s","p","a","c","e">> :> KeyTok("backspace") ) @@
    ( <<"d","e","l","e","t","e">> :> KeyTok("delete") ) @@
    ( <<"e","s","c","a","p","e">> :> KeyTok("esc") ) @@
    ( <<"e","s","c">> :> KeyTok("esc") ) @@
    ( <<"u","p">> :> KeyTok("up") ) @@
    ( <<"d","o","w","n">> :> KeyTok("down") ) @@
    ( <<"l","e","f","t">> :> KeyTok("left") ) @@
    ( <<"r","i","g","h","t">> :> KeyTok("right") ) @@
    ( <<"h","o","m","e">> :> KeyTok("home") ) @@
    ( <<"e","n","d">> :> KeyTok("end") ) @@
    ( <<"p","a","g","e","u","p">> :> KeyTok("page_up") ) @@
    ( <<"p","a","g","e","d","o","w","n">> :> KeyTok("page_down") ) @@
    ( <<"f","1">> :> FKey(1) ) @@ ( <<"f","2">> :> FKey(2) ) @@
    ( <<"f","3">> :> FKey(3) ) @@ ( <<"f","4">> :> FKey(4) ) @@
    ( <<"f","5">> :> FKey(5) ) @@ ( <<"f","6">> :> FKey(6) ) @@
    ( <<"f","7">> :> FKey(7) ) @@ ( <<"f","8">> :> FKey(8) ) @@
    ( <<"f","9">> :> FKey(9) ) @@ ( <<"f","1","0">> :> FKey(10) ) @@
    ( <<"f","1","1">> :> FKey(11) ) @@ ( <<"f","1","2">> :> FKey(12) )

(***************************************************************************)
(* _parse_shortcut without the cache: the token list, or the ValueError.   *)
(***************************************************************************)
ParseError == [ok |-> FALSE, keys |-> <<>>]

\* variant: the number of the function key is not range-checked
FunctionKey_NoRange(f_num) ==
    IF f_num.ok THEN [ok |-> TRUE, keys |-> <<FKey(f_num.val)>>] ELSE ParseError

\* the function-key branch: f_num is int(part[1:]), valid from 1 to 20
FunctionKey(f_num) ==
    IF f_num.ok /\ 1 <= f_num.val /\ f_num.val <= 20
    THEN [ok |-> TRUE, keys |-> <<FKey(f_num.val)>>]
    ELSE ParseError

\* one part of the shortcut, already lowered and stripped
ClassifyPart(part) ==
    IF part \in DOMAIN _modifier_map
    THEN [ok |-> TRUE, keys |-> <<_modifier_map[part]>>]
    ELSE IF part \in DOMAIN _special_keys
    THEN [ok |-> TRUE, keys |-> <<_special_keys[part]>>]
    ELSE IF part[1] = "f" /\ Len(part) > 1
    THEN FunctionKey(IntParse(Tail(part)))
    ELSE IF Len(part) = 1
    THEN [ok |-> TRUE, keys |-> <<CharTok(part[1])>>]
    ELSE ParseError

\* the loop over the parts: blank parts are skipped, the first bad part raises
RECURSIVE ParseParts(_, _)
ParseParts(parts, keys) ==
    IF parts = <<>> THEN [ok |-> TRUE, keys |-> keys]
    ELSE IF parts[1] = <<>> THEN ParseParts(Tail(parts), keys)
    ELSE IF ~ClassifyPart(parts[1]).ok THEN ParseError
    ELSE ParseParts(Tail(parts), keys \o ClassifyPart(parts[1]).keys)

\* variant: the parts are used as split, without strip()
StripAll_Unstripped(parts) == parts

\* part.strip() for every part
StripAll(parts) == [i \in 1..Len(parts) |-> Strip(parts[i])]

\* an empty key list raises too
NonEmptyKeys(r) == IF r.ok /\ r.keys # <<>> THEN r ELSE ParseError

ParseUncached(shortcut) ==
    NonEmptyKeys(ParseParts(StripAll(SplitPlus(Lower(shortcut))), <<>>))

\* variant: the list is stored in the cache in reversed order
StoreParsed_Reversed(shortcut, cache, r) ==
    IF r.ok
    THEN [ok |-> TRUE, keys |-> r.keys,
          cache |-> (shortcut :> Reverse(r.keys)) @@ cache]
    ELSE [ok |-> FALSE, keys |-> <<>>, cache |-> cache]

\* the end of _parse_shortcut: a successful parse r is stored in the cache
StoreParsed(shortcut, cache, r) ==
    IF r.ok
    THEN [ok |-> TRUE, keys |-> r.keys, cache |-> (shortcut :> r.keys) @@ cache]
    ELSE [ok |-> FALSE, keys |-> <<>>, cache |-> cache]

\* variant: the cache keeps only the shortcut that was parsed last
_parse_shortcut_SingleEntry(shortcut, cache) ==
    IF shortcut \in DOMAIN cache
    THEN [ok |-> TRUE, keys |-> cache[shortcut], cache |-> cache]
    ELSE StoreParsed(shortcut, EmptyMap, ParseUncached(shortcut))

\* _parse_shortcut: cache lookup first
_parse_shortcut(shortcut, cache) ==
    IF shortcut \in DOMAIN cache
    THEN [ok |-> TRUE, keys |-> cache[shortcut], cache |-> cache]
    ELSE StoreParsed(shortcut, cache, ParseUncached(shortcut))

(***************************************************************************)
(* The shortcut executor.  failAt names the keyboard_controller call that  *)
(* raises (0, or a number beyond the last call: none does).                *)
(***************************************************************************)
Call(op, key, ok) == [op |-> op, key |-> key, ok |-> ok]

\* variant: the release loop walks the list in the order of the presses
KeyCalls_SameOrder(keys) ==
    [i \in 1..Len(keys) |-> Call("press", keys[i], TRUE)] \o
    [i \in 1..Len(keys) |-> Call("release", keys[i], TRUE)]

\* the two loops: press every key in list order, then release in reversed order
KeyCalls(keys) ==
    [i \in 1..Len(keys) |-> Call("press", keys[i], TRUE)] \o
    [i \in 1..Len(keys) |-> Call("release", Reverse(keys)[i], TRUE)]

\* variant: the call that raised is attempted a second time before giving up
CutAtFailure_Retry(all, failAt) ==
    IF failAt \in 1..Len(all)
    THEN [i \in 1..(failAt + 1) |->
             IF i >= failAt THEN Call(all[failAt].op, all[failAt].key, FALSE)
             ELSE all[i]]
    ELSE all

\* the calls issued when call number failAt of all raises: it is the last one issued
CutAtFailure(all, failAt) ==
    IF failAt \in 1..Len(all)
    THEN [i \in 1..failAt |-> IF i = failAt THEN Call(all[i].op, all[i].key, FALSE)
                              ELSE all[i]]
    ELSE all

IssuedCalls(keys, failAt) == CutAtFailure(KeyCalls(keys), failAt)

\* variant: a failure is followed by the release of the keys that are still down
PressAndRelease_ReleasesHeld(p, failAt) ==
    IF ~p.ok
    THEN [ok |-> FALSE, cache |-> p.cache, calls |-> <<>>]
    ELSE [ok |-> failAt \notin 1..(2 * Len(p.keys)),
          cache |-> p.cache,
          calls |-> IF failAt \in 1..(2 * Len(p.keys))
                    THEN IssuedCalls(p.keys, failAt) \o
                         [i \in 1..(IF failAt <= Len(p.keys) THEN failAt - 1
                                    ELSE 2 * Len(p.keys) - failAt) |->
                             Call("release",
                                  p.keys[(IF failAt <= Len(p.keys) THEN failAt - 1
                                          ELSE 2 * Len(p.keys) - failAt) + 1 - i],
                                  TRUE)]
                    ELSE IssuedCalls(p.keys, failAt)]

\* the two loops of the try block, after the parse p
PressAndRelease(p, failAt) ==
    IF ~p.ok
    THEN [ok |-> FALSE, cache |-> p.cache, calls |-> <<>>]
    ELSE [ok |-> failAt \notin 1..(2 * Len(p.keys)),
          cache |-> p.cache,
          calls |-> IssuedCalls(p.keys, failAt)]

\* the body of the try block shared by both executors
TryExecute(shortcut, cache, failAt) ==
    PressAndRelease(_parse_shortcut(shortcut, cache), failAt)

\* the except branches: return False (fast) or raise ValueError
Outcome(r, reraise) ==
    [ok |-> r.ok, raised |-> reraise /\ ~r.ok, cache |-> r.cache, calls |-> r.calls]

\* execute_shortcut_fast: returns False on any exception, raises nothing
execute_shortcut_fast(shortcut, cache, failAt) ==
    Outcome(TryExecute(shortcut, cache, failAt), FALSE)

\* execute_shortcut: re-raises every exception as ValueError
execute_shortcut(shortcut, cache, failAt) ==
    Outcome(TryExecute(shortcut, cache, failAt), TRUE)

(***************************************************************************)
(* load_mappings.  A raw record is [bad, keyType, unhashable, action,      *)
(* sequence, seqIsList, name]; a missing keyType or action is the empty    *)
(* value, bad marks an entry that is not a dict (its .get raises), and     *)
(* unhashable a keyType that is a list (storing under it raises).          *)
(***************************************************************************)
Rec(keyType, action, sequence, name) ==
    [bad |-> FALSE, keyType |-> keyType, unhashable |-> FALSE, action |-> action,
     sequence |-> sequence, seqIsList |-> TRUE, name |-> name]

SeqMapping(sequence, action, name) ==
    [sequence |-> sequence, action |-> action, name |-> name]

NoMapping == SeqMapping(<<>>, <<>>, "")

EmptyTable == [button_mappings |-> EmptyMap, sequence_mappings |-> <<>>, raised |-> FALSE]

\* variant: a sequence record is put in front of the list instead of at its end
LoadOne_Prepends(tbl, btn) ==
    IF btn.bad THEN [tbl EXCEPT !.raised = TRUE]
    ELSE IF btn.action = <<>> THEN tbl
    ELSE IF btn.sequence # <<>> /\ btn.seqIsList
    THEN [tbl EXCEPT !.sequence_mappings =
              <<SeqMapping(btn.sequence, btn.action, btn.name)>> \o @]
    ELSE IF btn.keyType = "" THEN tbl
    ELSE IF btn.unhashable THEN [tbl EXCEPT !.raised = TRUE]
    ELSE [tbl EXCEPT !.button_mappings = (btn.keyType :> btn.action) @@ @]

\* the loop body for one record
LoadOne(tbl, btn) ==
    IF btn.bad THEN [tbl EXCEPT !.raised = TRUE]
    ELSE IF btn.action = <<>> THEN tbl
    ELSE IF btn.sequence # <<>> /\ btn.seqIsList
    THEN [tbl EXCEPT !.sequence_mappings =
              Append(@, SeqMapping(btn.sequence, btn.action, btn.name))]
    ELSE IF btn.keyType = "" THEN tbl
    ELSE IF btn.unhashable THEN [tbl EXCEPT !.raised = TRUE]
    ELSE [tbl EXCEPT !.button_mappings = (btn.keyType :> btn.action) @@ @]

RECURSIVE LoadLoop(_, _)
LoadLoop(tbl, buttons) ==
    IF buttons = <<>> \/ tbl.raised THEN tbl
    ELSE LoadLoop(LoadOne(tbl, buttons[1]), Tail(buttons))

\* variant: the sort without reverse=True, shortest first
RECURSIVE InsertByLen_Ascending(_, _)
InsertByLen_Ascending(sorted, m) ==
    IF sorted = <<>> THEN <<m>>
    ELSE IF Len(sorted[1].sequence) <= Len(m.sequence)
    THEN <<sorted[1]>> \o InsertByLen_Ascending(Tail(sorted), m)
    ELSE <<m>> \o sorted

\* list.sort(key=len(sequence), reverse=True): stable, longest first
RECURSIVE InsertByLen(_, _)
InsertByLen(sorted, m) ==
    IF sorted = <<>> THEN <<m>>
    ELSE IF Len(sorted[1].sequence) >= Len(m.sequence)
    THEN <<sorted[1]>> \o InsertByLen(Tail(sorted), m)
    ELSE <<m>> \o sorted

\* variant: the list is left in the order of the records
SortByLenDesc_Unsorted(list) == list

RECURSIVE SortByLenDesc(_)
SortByLenDesc(list) ==
    IF list = <<>> THEN <<>>
    ELSE InsertByLen(SortByLenDesc(SubSeq(list, 1, Len(list) - 1)), list[Len(list)])

\* the end of the try block: sort; the except branch: both tables emptied
SortOrReset(t) ==
    IF t.raised THEN EmptyTable
    ELSE [t EXCEPT !.sequence_mappings = SortByLenDesc(@)]

\* variant: the loop adds to the tables of the previous load
load_mappings_Merging(buttons, storeRaises) ==
    IF storeRaises THEN EmptyTable
    ELSE SortOrReset(LoadLoop([button_mappings |-> button_mappings,
                               sequence_mappings |-> sequence_mappings,
                               raised |-> FALSE], buttons))

\* load_mappings: storeRaises is load_buttons() (or its import) raising
load_mappings(buttons, storeRaises) ==
    IF storeRaises THEN EmptyTable
    ELSE SortOrReset(LoadLoop(EmptyTable, buttons))

(***************************************************************************)
(* check_sequence_match.                                                   *)
(***************************************************************************)
\* variant: the sequence is compared with the oldest entries of the view
TailMatches_FromFront(sequence, recent_history) ==
    \A i \in 1..Len(sequence) : recent_history[i][1] = sequence[i]

\* the inner loop: the sequence equals the key types of the tail of the view
TailMatches(sequence, recent_history) ==
    \A i \in 1..Len(sequence) :
        recent_history[Len(recent_history) - Len(sequence) + i][1] = sequence[i]

\* variant: a sequence as long as the whole view is skipped
RECURSIVE MatchLoop_SkipFull(_, _)
MatchLoop_SkipFull(mappings, recent_history) ==
    IF mappings = <<>>
    THEN [mapping |-> NoMapping, remaining |-> recent_history]
    ELSE LET sequence == mappings[1].sequence
         IN  IF Len(sequence) >= Len(recent_history)
             THEN MatchLoop_SkipFull(Tail(mappings), recent_history)
             ELSE IF TailMatches(sequence, recent_history)
             THEN [mapping |-> mappings[1],
                   remaining |-> SubSeq(recent_history, 1,
                                        Len(recent_history) - Len(sequence))]
             ELSE MatchLoop_SkipFull(Tail(mappings), recent_history)

RECURSIVE MatchLoop(_, _)
MatchLoop(mappings, recent_history) ==
    IF mappings = <<>>
    THEN [mapping |-> NoMapping, remaining |-> recent_history]
    ELSE LET sequence == mappings[1].sequence
         IN  IF Len(sequence) > Len(recent_history)
             THEN MatchLoop(Tail(mappings), recent_history)
             ELSE IF TailMatches(sequence, recent_history)
             THEN [mapping |-> mappings[1],
                   remaining |-> SubSeq(recent_history, 1,
                                        Len(recent_history) - Len(sequence))]
             ELSE MatchLoop(Tail(mappings), recent_history)

check_sequence_match(history, mappings) ==
    MatchLoop(mappings, LastN(history, HistoryCap))

(***************************************************************************)
(* The history window of handle_mouse_button: append, then drop from the   *)
(* front while the oldest entry is older than SEQUENCE_TIMEOUT.            *)
(***************************************************************************)
\* variant: the loop tests the newest entry instead of the oldest
RECURSIVE Prune_TestsNewest(_, _)
Prune_TestsNewest(history, current_time) ==
    IF history # <<>> /\ history[Len(history)][2] < current_time - SEQUENCE_TIMEOUT
    THEN Prune_TestsNewest(Tail(history), current_time)
    ELSE history

RECURSIVE Prune(_, _)
Prune(history, current_time) ==
    IF history # <<>> /\ history[1][2] < current_time - SEQUENCE_TIMEOUT
    THEN Prune(Tail(history), current_time)
    ELSE history

\* variant: the release is appended and nothing is dropped
RecordEvent_AppendOnly(history, key_type, current_time) ==
    Append(history, <<key_type, current_time>>)

\* lines 265-270: the append and the pruning loop
RecordEvent(history, key_type, current_time) ==
    Prune(Append(history, <<key_type, current_time>>), current_time)

KeyTypes == <<"button_0", "button_1", "button_2", "button_3">>

\* f"button_{button_number}"
KeyType(button_number) == KeyTypes[button_number + 1]

Buttons == 0..(Len(KeyTypes) - 1)

(***************************************************************************)
(* Shortcut strings and the record lists load_buttons() may return.        *)
(***************************************************************************)
ShA == <<"c","t","r","l","+","c">>
ShB == <<"c","t","r","l","+","s","h","i","f","t","+","c">>
ShC == <<"f","5">>
ShD == <<"a","l","t","+","t","a","b">>
ShFoo == <<"f","o","o">>
ShCtrlCSpaced == <<"C","t","r","l"," ","+"," ","C">>
ShF21 == <<"f","2","1">>
ShF13 == <<"F","1","3">>
ShEmpty == <<>>
ShWinD == <<"w","i","n","+","d">>
ShF0 == <<"f","0">>
ShCtrlFoo == <<"c","t","r","l","+","f","o","o">>
ShPlus == <<"+">>

Shortcuts == {ShA, ShB, ShC, ShFoo, ShCtrlCSpaced, ShF21, ShF13, ShEmpty, ShWinD,
              ShF0, ShCtrlFoo, ShPlus}

FailPoints == 0..MaxFailAt

\* in the engine only the outcome of an execution matters: no call fails, or the first
EngineFailPoints == {0, 1}

\* sequences [button_0] -> A and [button_0, button_1] -> B
CfgAB == << Rec("", ShA, <<"button_0">>, "A"),
            Rec("", ShB, <<"button_0", "button_1">>, "B") >>

\* only the single key button_2 -> C
CfgC == << Rec("button_2", ShC, <<>>, "C") >>

\* single key button_2 -> C and sequence [button_2, button_3] -> D
CfgCD == << Rec("button_2", ShC, <<>>, "C"),
            Rec("", ShD, <<"button_2", "button_3">>, "D") >>

Configs == <<CfgAB, CfgC, CfgCD>>

(***************************************************************************)
(* Initial state: the module globals as the import leaves them.            *)
(***************************************************************************)
\* no load_mappings call is under way
LoaderIdle == [at |-> "idle", rest |-> <<>>]

\* the threads that call start_listener at the same time
Callers == 1..MaxCallers

\* no load under way, no release half handled, no timer callback entered, no
\* start_listener call made
PcIdle ==
    [loader |-> LoaderIdle, handler |-> None, timer |-> NoTimer,
     start |-> [c \in Callers |-> "idle"]]

Ret(op, arg, ok, raised) == [op |-> op, arg |-> arg, ok |-> ok, raised |-> raised]

NoMatchLog == [matched |-> FALSE, mapping |-> NoMapping, view |-> <<>>, time |-> 0]

InitGlobals ==
    /\ is_listening = FALSE
    /\ listener_threads = 0
    /\ key_history = <<>>
    /\ pending_single_key = None
    /\ pending_timer = NoTimer
    /\ timers = {}
    /\ shortcut_cache = EmptyMap
    /\ now = 0
    /\ calls = <<>>
    /\ ret = Ret("import", <<>>, TRUE, FALSE)
    /\ events = <<>>
    /\ execs = <<>>
    /\ reloaded = FALSE
    /\ last_match = NoMatchLog
    /\ pc = PcIdle

Init ==
    /\ InitGlobals
    /\ button_mappings = EmptyMap
    /\ sequence_mappings = <<>>
    /\ mrecords = <<>>

(***************************************************************************)
(* cancel_pending_single_key and execute_pending_single_key, as functions  *)
(* of the globals they read and write.                                     *)
(***************************************************************************)
\* Timer.cancel(): a timer that has not fired yet never runs its callback
CancelTimer(live, id) == {t \in live : t.id # id}

cancel_pending_single_key(p_timer, live) ==
    [pending_single_key |-> None,
     pending_timer |-> NoTimer,
     timers |-> IF p_timer # NoTimer THEN CancelTimer(live, p_timer) ELSE live]

\* threading.Timer(SINGLE_KEY_DELAY, execute_pending_single_key).start()
NewTimerId(live) == CHOOSE i \in 1..(Cardinality(live) + 1) : \A t \in live : t.id # i

StartTimer(live, current_time) ==
    live \cup {[id |-> NewTimerId(live), deadline |-> current_time + SINGLE_KEY_DELAY]}

\* variant: the assignments of handle_mouse_button reach the module globals
AssignInHandler_Global(global_value, assigned_value) == assigned_value

\* handle_mouse_button declares no global: its assignments to pending_single_key
\* and pending_timer bind function locals, and the module globals keep their value
AssignInHandler(global_value, assigned_value) == global_value

\* variant: the history is never cleared after a match
HistoryAfterExecute_Keep(history, executed_ok) == history

\* key_history.clear() sits inside the try block, after execute_shortcut
HistoryAfterExecute(history, executed_ok) == IF executed_ok THEN <<>> ELSE history

Exec(action, time, ok, via, event) ==
    [action |-> action, time |-> time, ok |-> ok, via |-> via, event |-> event]

(***************************************************************************)
(* handle_mouse_button, called by _on_click for a button release.          *)
(***************************************************************************)
\* variant: after the match the release also goes through the single-key branch
MatchedBranch_AlsoDefers(history, mapping, c, ex, current_time, n) ==
    /\ pending_single_key' = c.pending_single_key
    /\ pending_timer' = c.pending_timer
    /\ timers' = StartTimer(c.timers, current_time)
    /\ shortcut_cache' = ex.cache
    /\ execs' = Append(execs, Exec(mapping.action, current_time, ex.ok, "sequence", n))
    /\ key_history' = HistoryAfterExecute(history, ex.ok)

\* the branch taken on a match: cancel the pending key, execute, clear on success
MatchedBranch(history, mapping, c, ex, current_time, n) ==
    /\ pending_single_key' = c.pending_single_key
    /\ pending_timer' = c.pending_timer
    /\ timers' = c.timers
    /\ shortcut_cache' = ex.cache
    /\ execs' = Append(execs, Exec(mapping.action, current_time, ex.ok, "sequence", n))
    /\ key_history' = HistoryAfterExecute(history, ex.ok)

\* the branch taken for a single-key mapping: cancel, then defer the action
SingleKeyBranch(key_type, history, action, c, current_time) ==
    /\ pending_single_key' = AssignInHandler(c.pending_single_key,
                                             <<key_type, action, current_time>>)
    /\ pending_timer' = AssignInHandler(c.pending_timer, NewTimerId(c.timers))
    /\ timers' = StartTimer(c.timers, current_time)
    /\ key_history' = history
    /\ UNCHANGED <<shortcut_cache, execs>>

\* variant: the error of a failed execution leaves the callback and ends the
\* listener thread
HandleRecorded_Uncontained(key_type, history, mapping, c, failAt, current_time) ==
    /\ events' = Append(events, [key |-> key_type, time |-> current_time])
    /\ last_match' = [matched |-> mapping # NoMapping, mapping |-> mapping,
                      view |-> history, time |-> current_time]
    /\ IF mapping # NoMapping
       THEN /\ MatchedBranch(history, mapping, c,
                             execute_shortcut(mapping.action, shortcut_cache, failAt),
                             current_time, Len(events) + 1)
            /\ listener_threads' = IF failAt = 0 THEN listener_threads ELSE 0
       ELSE IF key_type \in DOMAIN button_mappings
       THEN /\ SingleKeyBranch(key_type, history, button_mappings[key_type], c,
                               current_time)
            /\ UNCHANGED listener_threads
       ELSE /\ key_history' = history
            /\ UNCHANGED <<pending_single_key, pending_timer, timers,
                           shortcut_cache, execs, listener_threads>>
    /\ UNCHANGED <<is_listening, button_mappings,
                   sequence_mappings, now, calls, ret, reloaded, mrecords>>

\* the function after the history was recorded and the matcher has answered
HandleRecorded(key_type, history, mapping, c, failAt, current_time) ==
    /\ events' = Append(events, [key |-> key_type, time |-> current_time])
    /\ last_match' = [matched |-> mapping # NoMapping, mapping |-> mapping,
                      view |-> history, time |-> current_time]
    /\ IF mapping # NoMapping
       THEN MatchedBranch(history, mapping, c,
                          execute_shortcut(mapping.action, shortcut_cache, failAt),
                          current_time, Len(events) + 1)
       ELSE IF key_type \in DOMAIN button_mappings
       THEN SingleKeyBranch(key_type, history, button_mappings[key_type], c,
                            current_time)
       ELSE /\ key_history' = history
            /\ UNCHANGED <<pending_single_key, pending_timer, timers,
                           shortcut_cache, execs>>
    /\ UNCHANGED <<is_listening, listener_threads, button_mappings,
                   sequence_mappings, now, calls, ret, reloaded, mrecords>>

\* variant: the matcher is given the handled release alone, not the window
HandleWindow_LastOnly(key_type, history, failAt, current_time) ==
    HandleRecorded(key_type, history,
                   check_sequence_match(LastN(history, 1), sequence_mappings).mapping,
                   cancel_pending_single_key(pending_timer, timers),
                   failAt, current_time)

HandleWindow(key_type, history, failAt, current_time) ==
    HandleRecorded(key_type, history,
                   check_sequence_match(history, sequence_mappings).mapping,
                   cancel_pending_single_key(pending_timer, timers),
                   failAt, current_time)

HandleMouseButton(button_number, failAt) ==
    HandleWindow(KeyType(button_number),
                 RecordEvent(key_history, KeyType(button_number), now),
                 failAt, now)

\* variant: the callback does not test pressed and handles every event
OnClick_AnyEvent(button_number, pressed, failAt) ==
    /\ listener_threads >= 1
    /\ Len(events) < MaxEvents
    /\ Cardinality(timers) < MaxTimers
    /\ HandleMouseButton(button_number, failAt)
    /\ UNCHANGED pc

\* _on_click, run by a listener thread for every press and release of a button
OnClick(button_number, pressed, failAt) ==
    /\ listener_threads >= 1
    /\ IF pressed
       THEN UNCHANGED vars
       ELSE /\ Len(events) < MaxEvents
            /\ Cardinality(timers) < MaxTimers
            /\ HandleMouseButton(button_number, failAt)
            /\ UNCHANGED pc

(***************************************************************************)
(* execute_pending_single_key, run by a Timer thread once its delay is     *)
(* over.                                                                   *)
(***************************************************************************)
\* the body under `if pending_single_key`, with the outcome ex of the execution
PendingExecuted(action, ex) ==
    /\ pending_single_key' = None
    /\ pending_timer' = NoTimer
    /\ shortcut_cache' = ex.cache
    /\ execs' = Append(execs, Exec(action, now, ex.ok, "single", Len(events)))

TimerFire(id, failAt) ==
    /\ \E t \in timers : t.id = id /\ now >= t.deadline
    /\ timers' = {t \in timers : t.id # id}
    /\ IF pending_single_key # None
       THEN PendingExecuted(pending_single_key[2],
                            execute_shortcut(pending_single_key[2], shortcut_cache,
                                             failAt))
       ELSE UNCHANGED <<pending_single_key, pending_timer, shortcut_cache, execs>>
    /\ UNCHANGED <<is_listening, listener_threads, button_mappings,
                   sequence_mappings, key_history, now, calls, ret, events,
                   reloaded, last_match, mrecords, pc>>

(***************************************************************************)
(* Lifecycle: start_listener, stop_listener, the reload endpoint.          *)
(***************************************************************************)
\* variant: a load that yields nothing keeps the tables of the previous load
InstallTable_KeepsOnEmpty(t) ==
    /\ button_mappings' = IF t = EmptyTable THEN button_mappings ELSE t.button_mappings
    /\ sequence_mappings' = IF t = EmptyTable THEN sequence_mappings
                            ELSE t.sequence_mappings
    /\ reloaded' = (reloaded \/ events # <<>>)

\* the globals load_mappings assigns
InstallTable(t) ==
    /\ button_mappings' = t.button_mappings
    /\ sequence_mappings' = t.sequence_mappings
    /\ reloaded' = (reloaded \/ events # <<>>)

\* variant: the mappings are loaded before the running flag is tested
StartListener_LoadFirst(cfg, storeRaises) ==
    /\ InstallTable(load_mappings(Configs[cfg], storeRaises))
    /\ IF is_listening
       THEN /\ ret' = Ret("start_listener", <<>>, FALSE, FALSE)
            /\ UNCHANGED <<is_listening, listener_threads>>
       ELSE /\ listener_threads < MaxThreads
            /\ listener_threads' = listener_threads + 1
            /\ is_listening' = TRUE
            /\ ret' = Ret("start_listener", <<>>, TRUE, FALSE)
    /\ UNCHANGED <<key_history, pending_single_key, pending_timer, timers,
                   shortcut_cache, now, calls, events, execs, last_match,
                   mrecords, pc>>

StartListener(cfg, storeRaises) ==
    IF is_listening
    THEN /\ ret' = Ret("start_listener", <<>>, FALSE, FALSE)
         /\ UNCHANGED <<is_listening, listener_threads, button_mappings,
                        sequence_mappings, key_history, pending_single_key,
                        pending_timer, timers, shortcut_cache, now, calls,
                        events, execs, reloaded, last_match, mrecords, pc>>
    ELSE /\ listener_threads < MaxThreads
         /\ InstallTable(load_mappings(Configs[cfg], storeRaises))
         /\ listener_threads' = listener_threads + 1
         /\ is_listening' = TRUE
         /\ ret' = Ret("start_listener", <<>>, TRUE, FALSE)
         /\ UNCHANGED <<key_history, pending_single_key, pending_timer,
                        timers, shortcut_cache, now, calls, events, execs,
                        last_match, mrecords, pc>>

\* the globals cancel_pending_single_key assigns
InstallCancelled(c) ==
    /\ pending_single_key' = c.pending_single_key
    /\ pending_timer' = c.pending_timer
    /\ timers' = c.timers

StopListener ==
    IF ~is_listening
    THEN /\ ret' = Ret("stop_listener", <<>>, FALSE, FALSE)
         /\ UNCHANGED <<is_listening, listener_threads, button_mappings,
                        sequence_mappings, key_history, pending_single_key,
                        pending_timer, timers, shortcut_cache, now, calls,
                        events, execs, reloaded, last_match, mrecords, pc>>
    ELSE /\ InstallCancelled(cancel_pending_single_key(pending_timer, timers))
         /\ key_history' = <<>>
         /\ is_listening' = FALSE
         /\ ret' = Ret("stop_listener", <<>>, TRUE, FALSE)
         /\ events' = <<>>
         /\ execs' = <<>>
         /\ reloaded' = FALSE
         /\ last_match' = NoMatchLog
         /\ UNCHANGED <<listener_threads, button_mappings, sequence_mappings,
                        shortcut_cache, now, calls, mrecords, pc>>

\* variant: the reload also empties the history window
Reload_ClearsHistory(cfg, storeRaises) ==
    /\ InstallTable(load_mappings(Configs[cfg], storeRaises))
    /\ ret' = Ret("reload_mappings_endpoint", <<>>, TRUE, FALSE)
    /\ key_history' = <<>>
    /\ UNCHANGED <<is_listening, listener_threads, pending_single_key,
                   pending_timer, timers, shortcut_cache, now, calls, events,
                   execs, last_match, mrecords, pc>>

\* POST /reload
Reload(cfg, storeRaises) ==
    /\ InstallTable(load_mappings(Configs[cfg], storeRaises))
    /\ ret' = Ret("reload_mappings_endpoint", <<>>, TRUE, FALSE)
    /\ UNCHANGED <<is_listening, listener_threads, key_history,
                   pending_single_key, pending_timer, timers, shortcut_cache,
                   now, calls, events, execs, last_match, mrecords, pc>>

(***************************************************************************)
(* The environment: time passes.                                           *)
(***************************************************************************)
Tick ==
    /\ now < MaxTime
    /\ now' = now + 1
    /\ UNCHANGED <<is_listening, listener_threads, button_mappings,
                   sequence_mappings, key_history, pending_single_key,
                   pending_timer, timers, shortcut_cache, calls, ret,
                   events, execs, reloaded, last_match, mrecords, pc>>

Next ==
    \/ \E cfg \in 1..Len(Configs), storeRaises \in BOOLEAN :
           StartListener(cfg, storeRaises)
    \/ StopListener
    \/ \E cfg \in 1..Len(Configs), storeRaises \in BOOLEAN : Reload(cfg, storeRaises)
    \/ \E b \in Buttons, pressed \in BOOLEAN, failAt \in EngineFailPoints :
           OnClick(b, pressed, failAt)
    \/ \E id \in 1..MaxTimers, failAt \in EngineFailPoints : TimerFire(id, failAt)
    \/ Tick

Spec == Init /\ [][Next]_vars

\* the engine between two reloads: every action but the reload endpoint
NextRun ==
    \/ \E cfg \in 1..Len(Configs), storeRaises \in BOOLEAN :
           StartListener(cfg, storeRaises)
    \/ StopListener
    \/ \E b \in Buttons, pressed \in BOOLEAN, failAt \in EngineFailPoints :
           OnClick(b, pressed, failAt)
    \/ \E id \in 1..MaxTimers, failAt \in EngineFailPoints : TimerFire(id, failAt)
    \/ Tick

SpecRun == Init /\ [][NextRun]_vars

\* the lifecycle and the reload endpoint around releases that arrive in one instant
NextReload ==
    \/ \E cfg \in 1..Len(Configs), storeRaises \in BOOLEAN :
           StartListener(cfg, storeRaises)
    \/ StopListener
    \/ \E cfg \in 1..Len(Configs), storeRaises \in BOOLEAN : Reload(cfg, storeRaises)
    \/ \E b \in Buttons, pressed \in BOOLEAN, failAt \in EngineFailPoints :
           OnClick(b, pressed, failAt)

SpecReload == Init /\ [][NextReload]_vars

(***************************************************************************)
(* The executor on its own: both variants applied to every input shortcut  *)
(* with every failing call.                                                *)
(***************************************************************************)
\* a direct call of an executor that ended with outcome r
Executed(name, shortcut, r) ==
    /\ shortcut_cache' = r.cache
    /\ calls' = r.calls
    /\ ret' = Ret(name, shortcut, r.ok, r.raised)
    /\ UNCHANGED <<is_listening, listener_threads, button_mappings,
                   sequence_mappings, key_history, pending_single_key,
                   pending_timer, timers, now, events, execs, reloaded,
                   last_match, mrecords, pc>>

ExecuteShortcut(shortcut, failAt) ==
    Executed("execute_shortcut", shortcut,
             execute_shortcut(shortcut, shortcut_cache, failAt))

ExecuteShortcutFast(shortcut, failAt) ==
    Executed("execute_shortcut_fast", shortcut,
             execute_shortcut_fast(shortcut, shortcut_cache, failAt))

\* a direct call of _parse_shortcut that ended with p: the tokens returned, or the
\* ValueError; cached tells whether the call found the shortcut in the cache
Parsed(shortcut, cached, p) ==
    /\ shortcut_cache' = p.cache
    /\ ret' = [op |-> "_parse_shortcut", arg |-> shortcut, ok |-> p.ok,
               raised |-> ~p.ok, keys |-> p.keys, cached |-> cached]
    /\ UNCHANGED <<is_listening, listener_threads, button_mappings,
                   sequence_mappings, key_history, pending_single_key,
                   pending_timer, timers, now, calls, events, execs, reloaded,
                   last_match, mrecords, pc>>

ParseShortcut(shortcut) ==
    Parsed(shortcut, shortcut \in DOMAIN shortcut_cache,
           _parse_shortcut(shortcut, shortcut_cache))

NextExec ==
    \/ \E sh \in Shortcuts, failAt \in FailPoints : ExecuteShortcut(sh, failAt)
    \/ \E sh \in Shortcuts, failAt \in FailPoints : ExecuteShortcutFast(sh, failAt)
    \/ \E sh \in Shortcuts : ParseShortcut(sh)

SpecExec == Init /\ [][NextExec]_vars

(***************************************************************************)
(* The parser on its own: the action string of one stored record is parsed. *)
(* The strings are valid shortcuts of up to MaxParts parts, written plain,  *)
(* in upper case, with blanks around the parts, or with a trailing "+".     *)
(***************************************************************************)
\* "f1" .. "f20"
FText(n) ==
    IF n < 10 THEN <<"f", Digits[n + 1]>>
    ELSE <<"f", Digits[(n \div 10) + 1], Digits[(n % 10) + 1]>>

RECURSIVE JoinPlus(_)
JoinPlus(parts) ==
    IF Len(parts) = 1 THEN parts[1]
    ELSE parts[1] \o <<"+">> \o JoinPlus(Tail(parts))

Styled(style, parts) ==
    CASE style = "plain" -> JoinPlus(parts)
      [] style = "upper" ->
            [i \in 1..Len(JoinPlus(parts)) |->
                IF \E k \in 1..26 : LowerLetters[k] = JoinPlus(parts)[i]
                THEN UpperLetters[CHOOSE k \in 1..26 : LowerLetters[k] = JoinPlus(parts)[i]]
                ELSE JoinPlus(parts)[i]]
      [] style = "spaced" -> JoinPlus([i \in 1..Len(parts) |-> <<" ">> \o parts[i] \o <<"\t">>])
      [] style = "trailing" -> JoinPlus(parts) \o <<"+">>

\* a few parts are combined; every function key is also parsed alone
ParseInputs ==
    {Styled(style, parts) :
        style \in {"plain", "upper", "spaced", "trailing"},
        parts \in UNION {[1..n -> {<<"c","t","r","l">>, <<"s","h","i","f","t">>,
                                   <<"a","l","t">>, <<"e","n","t","e","r">>, <<"c">>,
                                   FText(1), FText(13), FText(20)}] : n \in 1..MaxParts}
                      \cup {<<FText(n)>> : n \in 1..20}}

InitParse ==
    /\ InitGlobals
    /\ button_mappings = EmptyMap
    /\ sequence_mappings = <<>>
    /\ mrecords \in {<<Rec("button_0", sh, <<>>, "")>> : sh \in ParseInputs}

\* _parse_shortcut applied to the action of the stored record
SpecParse == InitParse /\ [][ParseShortcut(mrecords[1].action)]_vars

(***************************************************************************)
(* Every user of the cache together: the lifecycle, the reload endpoint    *)
(* and the handler with its executions, next to direct calls of the parser *)
(* on a configured, a valid unconfigured and an invalid shortcut.          *)
(***************************************************************************)
NextCache ==
    \/ \E cfg \in 1..Len(Configs), storeRaises \in BOOLEAN :
           StartListener(cfg, storeRaises)
    \/ StopListener
    \/ \E cfg \in 1..Len(Configs), storeRaises \in BOOLEAN : Reload(cfg, storeRaises)
    \/ \E b \in Buttons, pressed \in BOOLEAN, failAt \in EngineFailPoints :
           OnClick(b, pressed, failAt)
    \/ \E sh \in {ShA, ShF13, ShFoo} : ParseShortcut(sh)

SpecCache == Init /\ [][NextCache]_vars

(***************************************************************************)
(* reload_and_restart_listener next to the plain lifecycle.  A running     *)
(* listener is stopped, the caller sleeps RestartPause, and start_listener *)
(* is called: it finds is_listening False, loads the mappings and spawns a *)
(* listener thread.  The threads spawned earlier are counted on: nothing   *)
(* in stop_listener ends them.                                             *)
(***************************************************************************)
ReloadAndRestart(cfg, storeRaises) ==
    /\ listener_threads < MaxRestartThreads
    /\ IF is_listening
       THEN /\ now + RestartPause <= MaxTime
            /\ now' = now + RestartPause
            /\ InstallCancelled(cancel_pending_single_key(pending_timer, timers))
            /\ key_history' = <<>>
            /\ events' = <<>>
            /\ execs' = <<>>
            /\ last_match' = NoMatchLog
       ELSE UNCHANGED <<now, pending_single_key, pending_timer, timers,
                        key_history, events, execs, last_match>>
    /\ button_mappings' = load_mappings(Configs[cfg], storeRaises).button_mappings
    /\ sequence_mappings' = load_mappings(Configs[cfg], storeRaises).sequence_mappings
    /\ reloaded' = (~is_listening /\ (reloaded \/ events # <<>>))
    /\ listener_threads' = listener_threads + 1
    /\ is_listening' = TRUE
    /\ ret' = Ret("start_listener", <<>>, TRUE, FALSE)
    /\ UNCHANGED <<shortcut_cache, calls, mrecords, pc>>

SpecRestart ==
    Init /\ [][\/ \E cfg \in 1..Len(Configs), storeRaises \in BOOLEAN :
                      StartListener(cfg, storeRaises)
               \/ StopListener
               \/ \E cfg \in 1..Len(Configs), storeRaises \in BOOLEAN :
                      ReloadAndRestart(cfg, storeRaises)
               \/ \E b \in Buttons, pressed \in BOOLEAN, failAt \in EngineFailPoints :
                      OnClick(b, pressed, failAt)]_vars

(***************************************************************************)
(* The matcher on its own: every short list of sequence records is loaded, *)
(* and the matcher is applied to a history that grows one entry at a time. *)
(***************************************************************************)
MatchKeys == {"button_0", "button_1"}

SeqPool == UNION {[1..n -> MatchKeys] : n \in 1..MaxSeqLen}

MatchInputs == UNION {[1..n -> {Rec("", ShA, q, "") : q \in SeqPool}] : n \in 0..MaxRecords}

\* the tables a load leaves, as the initial state of the matcher specification
TableIs(t) ==
    /\ button_mappings = t.button_mappings
    /\ sequence_mappings = t.sequence_mappings

InitMatch ==
    /\ InitGlobals
    /\ mrecords \in MatchInputs
    /\ TableIs(load_mappings(mrecords, FALSE))

\* the matcher applied to history, with its answer m logged
Matched(history, m) ==
    /\ key_history' = history
    /\ last_match' = [matched |-> m.mapping # NoMapping, mapping |-> m.mapping,
                      view |-> history, time |-> now]
    /\ UNCHANGED <<is_listening, listener_threads, button_mappings,
                   sequence_mappings, pending_single_key, pending_timer,
                   timers, shortcut_cache, now, calls, ret, events, execs,
                   reloaded, mrecords, pc>>

MatchHistory(history) == Matched(history, check_sequence_match(history, sequence_mappings))

CheckMatch(key_type) ==
    /\ Len(key_history) < MaxHist
    /\ MatchHistory(Append(key_history, <<key_type, now>>))

NextMatch == \E k \in MatchKeys : CheckMatch(k)

SpecMatch == InitMatch /\ [][NextMatch]_vars

\* the matcher over lists in which sequences overlap and repeat: [button_0] twice,
\* with two actions, and two sequences of two buttons that end with button_0
RefRecords ==
    {Rec("", ShA, <<"button_0">>, "a"), Rec("", ShB, <<"button_0">>, "b"),
     Rec("", ShC, <<"button_1", "button_0">>, "c"),
     Rec("", ShD, <<"button_0", "button_0">>, "d")}

InitMatchRef ==
    /\ InitGlobals
    /\ mrecords \in UNION {[1..n -> RefRecords] : n \in 0..MaxRecords}
    /\ TableIs(load_mappings(mrecords, FALSE))

SpecMatchRef == InitMatchRef /\ [][NextMatch]_vars

(***************************************************************************)
(* The history window on its own: the listener runs with empty tables and  *)
(* releases of one button arrive in a burst, up to MaxBurst entries within *)
(* BurstTime ticks.                                                        *)
(***************************************************************************)
\* handle_mouse_button when the matcher returns None and the key has no single-key
\* mapping: the function records the release and returns False
UnmappedRelease(key_type, history) ==
    /\ check_sequence_match(history, sequence_mappings).mapping = NoMapping
    /\ key_type \notin DOMAIN button_mappings
    /\ key_history' = history
    /\ UNCHANGED <<is_listening, listener_threads, button_mappings,
                   sequence_mappings, pending_single_key, pending_timer,
                   timers, shortcut_cache, now, calls, ret, events, execs,
                   reloaded, last_match, mrecords, pc>>

BurstRelease(button_number) ==
    /\ listener_threads >= 1
    /\ Len(key_history) < MaxBurst
    /\ UnmappedRelease(KeyType(button_number),
                       RecordEvent(key_history, KeyType(button_number), now))

BurstTick == now < BurstTime /\ Tick

\* start_listener while load_buttons() raises: the listener runs with empty tables
StartEmpty == \E cfg \in 1..Len(Configs) : StartListener(cfg, TRUE)

NextWindow ==
    \/ StartEmpty
    \/ \E b \in {0} : BurstRelease(b)
    \/ BurstTick

SpecWindow == Init /\ [][NextWindow]_vars

(***************************************************************************)
(* load_mappings on its own: the store returns every short list of raw     *)
(* records, well formed or not, or raises.                                 *)
(***************************************************************************)
RecA == Rec("", ShA, <<"button_0">>, "A")

RecB == Rec("", ShB, <<"button_0", "button_1">>, "B")

RecC == Rec("button_2", ShC, <<>>, "C")

\* the entries a stored list is made of: the three records above; a second record
\* for button_2; a record without action; a record with a sequence and a keyType;
\* a record whose sequence is a string, not a list; a record with an action only;
\* an entry that is not a dict; a record whose keyType is a list
LoadPool ==
    {RecA, RecB, RecC,
     Rec("button_2", ShD, <<>>, "C2"),
     Rec("button_3", <<>>, <<"button_1">>, ""),
     Rec("button_3", ShC, <<"button_1">>, "both"),
     [Rec("button_3", ShA, <<"button_0">>, "str") EXCEPT !.seqIsList = FALSE],
     Rec("", ShA, <<>>, "bare"),
     [Rec("", <<>>, <<>>, "") EXCEPT !.bad = TRUE],
     [Rec("button_3", ShB, <<>>, "list") EXCEPT !.unhashable = TRUE]}

LoadInputs == UNION {[1..n -> LoadPool] : n \in 0..MaxRecords}

\* the globals as the import leaves them, and the list the store holds
InitLoad ==
    /\ InitGlobals
    /\ button_mappings = EmptyMap
    /\ sequence_mappings = <<>>
    /\ mrecords \in LoadInputs

\* a call of load_mappings while load_buttons() returns the stored list, or raises;
\* ret.ok tells whether load_buttons() returned, and load_mappings raises nothing
LoadStored(storeRaises) ==
    /\ InstallTable(load_mappings(mrecords, storeRaises))
    /\ ret' = Ret("load_mappings", <<>>, ~storeRaises, FALSE)
    /\ UNCHANGED <<is_listening, listener_threads, key_history,
                   pending_single_key, pending_timer, timers, shortcut_cache,
                   now, calls, events, execs, last_match, mrecords, pc>>

NextLoad == \E storeRaises \in BOOLEAN : LoadStored(storeRaises)

SpecLoad == InitLoad /\ [][NextLoad]_vars

(***************************************************************************)
(* load_mappings statement by statement, on the thread of the reload       *)
(* endpoint, while a listener thread handles button releases.  The loader  *)
(* holds its local list in pc.loader.rest; old and new are the tables      *)
(* before the call and after a call that is not interrupted.               *)
(***************************************************************************)
CurrentTable ==
    [button_mappings |-> button_mappings, sequence_mappings |-> sequence_mappings,
     raised |-> FALSE]

LoaderAt(at, rest, old, new) == [at |-> at, rest |-> rest, old |-> old, new |-> new]

\* the loader moves on to at, with rest still to iterate
LoaderMoves(at, rest) ==
    pc' = [pc EXCEPT !.loader = LoaderAt(at, rest, pc.loader.old, pc.loader.new)]

\* what no statement of load_mappings touches
LoaderFrame ==
    UNCHANGED <<is_listening, listener_threads, key_history, pending_single_key,
                pending_timer, timers, shortcut_cache, now, calls, ret, events,
                execs, last_match, mrecords>>

\* lines 48-50: buttons = load_buttons(), which may raise
LoadBegin(cfg, storeRaises) ==
    /\ pc.loader.at = "idle"
    /\ pc' = [pc EXCEPT !.loader =
                  LoaderAt(IF storeRaises THEN "except" ELSE "reset", Configs[cfg],
                           CurrentTable, load_mappings(Configs[cfg], storeRaises))]
    /\ reloaded' = (reloaded \/ events # <<>>)
    /\ LoaderFrame
    /\ UNCHANGED <<button_mappings, sequence_mappings>>

\* line 51: button_mappings = {}
LoadResetButtons ==
    /\ pc.loader.at = "reset"
    /\ button_mappings' = EmptyMap
    /\ LoaderMoves("reset2", pc.loader.rest)
    /\ LoaderFrame
    /\ UNCHANGED <<sequence_mappings, reloaded>>

\* line 52: sequence_mappings = []
LoadResetSequences ==
    /\ pc.loader.at = "reset2"
    /\ sequence_mappings' = <<>>
    /\ LoaderMoves("loop", pc.loader.rest)
    /\ LoaderFrame
    /\ UNCHANGED <<button_mappings, reloaded>>

\* one iteration of the loop left the tables t, or raised
Iterated(t) ==
    IF t.raised
    THEN /\ LoaderMoves("except", <<>>)
         /\ UNCHANGED <<button_mappings, sequence_mappings>>
    ELSE /\ button_mappings' = t.button_mappings
         /\ sequence_mappings' = t.sequence_mappings
         /\ LoaderMoves("loop", Tail(pc.loader.rest))

\* lines 54-72: the loop body for the next record
LoadIterate ==
    /\ pc.loader.at = "loop"
    /\ pc.loader.rest # <<>>
    /\ Iterated(LoadOne(CurrentTable, pc.loader.rest[1]))
    /\ LoaderFrame
    /\ UNCHANGED reloaded

\* line 76: the sort, after the last record
LoadSort ==
    /\ pc.loader.at = "loop"
    /\ pc.loader.rest = <<>>
    /\ sequence_mappings' = SortByLenDesc(sequence_mappings)
    /\ pc' = [pc EXCEPT !.loader = LoaderIdle]
    /\ LoaderFrame
    /\ UNCHANGED <<button_mappings, reloaded>>

\* line 82: button_mappings = {} in the except branch
LoadExceptButtons ==
    /\ pc.loader.at = "except"
    /\ button_mappings' = EmptyMap
    /\ LoaderMoves("except2", <<>>)
    /\ LoaderFrame
    /\ UNCHANGED <<sequence_mappings, reloaded>>

\* line 83: sequence_mappings = [] in the except branch
LoadExceptSequences ==
    /\ pc.loader.at = "except2"
    /\ sequence_mappings' = <<>>
    /\ pc' = [pc EXCEPT !.loader = LoaderIdle]
    /\ LoaderFrame
    /\ UNCHANGED <<button_mappings, reloaded>>

\* start_listener, called while no reload is under way
StartBetweenLoads(cfg) == pc.loader.at = "idle" /\ StartListener(cfg, FALSE)

NextReloadRace ==
    \/ \E cfg \in 1..Len(Configs) : StartBetweenLoads(cfg)
    \/ \E cfg \in 1..Len(Configs), storeRaises \in BOOLEAN : LoadBegin(cfg, storeRaises)
    \/ LoadResetButtons
    \/ LoadResetSequences
    \/ LoadIterate
    \/ LoadSort
    \/ LoadExceptButtons
    \/ LoadExceptSequences
    \/ \E b \in Buttons, pressed \in BOOLEAN, failAt \in EngineFailPoints :
           OnClick(b, pressed, failAt)

SpecReloadRace == Init /\ [][NextReloadRace]_vars

(***************************************************************************)
(* The two callbacks step by step: handle_mouse_button on the listener     *)
(* thread and execute_pending_single_key on a Timer thread.  The code      *)
(* takes no lock in either.  pc.handler holds the locals <<key_type,       *)
(* current_time>> of a release that is appended but not yet matched;       *)
(* pc.timer holds the id of the Timer whose callback has been entered.     *)
(***************************************************************************)
\* lines 262-264: key_type, current_time, key_history.append
HandlerAppend(button_number) ==
    /\ listener_threads >= 1
    /\ pc.handler = None
    /\ Len(events) < MaxEvents
    /\ Cardinality(timers) < MaxTimers
    /\ key_history' = Append(key_history, <<KeyType(button_number), now>>)
    /\ pc' = [pc EXCEPT !.handler = <<KeyType(button_number), now>>]
    /\ UNCHANGED <<is_listening, listener_threads, button_mappings,
                   sequence_mappings, pending_single_key, pending_timer, timers,
                   shortcut_cache, now, calls, ret, events, execs, reloaded,
                   last_match, mrecords>>

\* lines 268-308: prune, match, and the branch taken
HandlerFinish(failAt) ==
    /\ pc.handler # None
    /\ HandleWindow(pc.handler[1], Prune(key_history, pc.handler[2]), failAt,
                    pc.handler[2])
    /\ pc' = [pc EXCEPT !.handler = None]

\* the Timer thread wakes after its delay and calls execute_pending_single_key
TimerEnter(id) ==
    /\ pc.timer = NoTimer
    /\ \E t \in timers : t.id = id /\ now >= t.deadline
    /\ timers' = {t \in timers : t.id # id}
    /\ pc' = [pc EXCEPT !.timer = id]
    /\ UNCHANGED <<is_listening, listener_threads, button_mappings,
                   sequence_mappings, key_history, pending_single_key,
                   pending_timer, shortcut_cache, now, calls, ret, events, execs,
                   reloaded, last_match, mrecords>>

\* lines 235-244: the test of pending_single_key and the body under it
TimerBody(failAt) ==
    /\ pc.timer # NoTimer
    /\ IF pending_single_key # None
       THEN PendingExecuted(pending_single_key[2],
                            execute_shortcut(pending_single_key[2], shortcut_cache,
                                             failAt))
       ELSE UNCHANGED <<pending_single_key, pending_timer, shortcut_cache, execs>>
    /\ pc' = [pc EXCEPT !.timer = NoTimer]
    /\ UNCHANGED <<is_listening, listener_threads, button_mappings,
                   sequence_mappings, key_history, timers, now, calls, ret,
                   events, reloaded, last_match, mrecords>>

NextCallbacks ==
    \/ \E cfg \in 1..Len(Configs) : StartListener(cfg, FALSE)
    \/ \E b \in Buttons : HandlerAppend(b)
    \/ \E failAt \in EngineFailPoints : HandlerFinish(failAt)
    \/ \E id \in 1..MaxTimers : TimerEnter(id)
    \/ \E failAt \in EngineFailPoints : TimerBody(failAt)
    \/ Tick

SpecCallbacks == Init /\ [][NextCallbacks]_vars

(***************************************************************************)
(* start_listener statement by statement, called once by each of several   *)
(* threads.  pc.start[c] is the position of caller c: "idle" before the    *)
(* call, "load", "spawn", "set" inside it, "ok" or "fail" once it has      *)
(* returned success True or False.                                         *)
(***************************************************************************)
\* everything but the lifecycle globals, the tables, ret and pc
StartFrame ==
    UNCHANGED <<key_history, pending_single_key, pending_timer, timers,
                shortcut_cache, now, calls, events, execs, last_match, mrecords>>

\* lines 348-349: the test of is_listening
StartCheck(c) ==
    /\ pc.start[c] = "idle"
    /\ pc' = [pc EXCEPT !.start[c] = IF is_listening THEN "fail" ELSE "load"]
    /\ ret' = IF is_listening THEN Ret("start_listener", <<>>, FALSE, FALSE) ELSE ret
    /\ StartFrame
    /\ UNCHANGED <<is_listening, listener_threads, button_mappings,
                   sequence_mappings, reloaded>>

\* line 352: load_mappings()
StartLoad(c, cfg, storeRaises) ==
    /\ pc.start[c] = "load"
    /\ InstallTable(load_mappings(Configs[cfg], storeRaises))
    /\ pc' = [pc EXCEPT !.start[c] = "spawn"]
    /\ StartFrame
    /\ UNCHANGED <<is_listening, listener_threads, ret>>

\* lines 355-359: the listener thread is created and started; the caller then
\* sleeps 0.1 s
StartSpawn(c) ==
    /\ pc.start[c] = "spawn"
    /\ listener_threads' = listener_threads + 1
    /\ pc' = [pc EXCEPT !.start[c] = "set"]
    /\ StartFrame
    /\ UNCHANGED <<is_listening, button_mappings, sequence_mappings, reloaded, ret>>

\* lines 361-362: is_listening = True, and the return
StartSet(c) ==
    /\ pc.start[c] = "set"
    /\ is_listening' = TRUE
    /\ ret' = Ret("start_listener", <<>>, TRUE, FALSE)
    /\ pc' = [pc EXCEPT !.start[c] = "ok"]
    /\ StartFrame
    /\ UNCHANGED <<listener_threads, button_mappings, sequence_mappings, reloaded>>

NextStartRace ==
    \/ \E c \in Callers : StartCheck(c)
    \/ \E c \in Callers, cfg \in 1..Len(Configs), storeRaises \in BOOLEAN :
           StartLoad(c, cfg, storeRaises)
    \/ \E c \in Callers : StartSpawn(c)
    \/ \E c \in Callers : StartSet(c)
    \/ Tick

SpecStartRace == Init /\ [][NextStartRace]_vars

(***************************************************************************)
(* The engine over a stored configuration in which buttons are at once in  *)
(* the single-key map and the last button of a sequence.                   *)
(***************************************************************************)
\* single keys button_3 -> C and button_1 -> A; sequences [button_2, button_3] -> D
\* and [button_1] -> B
CfgBoth == << Rec("button_3", ShC, <<>>, "C3"),
              Rec("", ShD, <<"button_2", "button_3">>, "D"),
              Rec("button_1", ShA, <<>>, "A1"),
              Rec("", ShB, <<"button_1">>, "B1") >>

InitStored ==
    /\ InitGlobals
    /\ button_mappings = EmptyMap
    /\ sequence_mappings = <<>>
    /\ mrecords \in {CfgBoth}

\* start_listener while load_buttons() returns the stored list
StartStored ==
    /\ ~is_listening
    /\ listener_threads < MaxThreads
    /\ InstallTable(load_mappings(mrecords, FALSE))
    /\ listener_threads' = listener_threads + 1
    /\ is_listening' = TRUE
    /\ ret' = Ret("start_listener", <<>>, TRUE, FALSE)
    /\ UNCHANGED <<key_history, pending_single_key, pending_timer, timers,
                   shortcut_cache, now, calls, events, execs, last_match,
                   mrecords, pc>>

NextStored ==
    \/ StartStored
    \/ \E b \in Buttons, pressed \in BOOLEAN, failAt \in EngineFailPoints :
           OnClick(b, pressed, failAt)
    \/ \E id \in 1..MaxTimers, failAt \in EngineFailPoints : TimerFire(id, failAt)
    \/ Tick

SpecStored == InitStored /\ [][NextStored]_vars

(***************************************************************************)
(* Vocabulary of the properties.                                           *)
(***************************************************************************)
\* the tables a completed load of the three configurations leaves
LoadedAB ==
    /\ button_mappings = EmptyMap
    /\ sequence_mappings = << SeqMapping(<<"button_0", "button_1">>, ShB, "B"),
                              SeqMapping(<<"button_0">>, ShA, "A") >>

LoadedC ==
    /\ button_mappings = ("button_2" :> ShC)
    /\ sequence_mappings = <<>>

LoadedCD ==
    /\ button_mappings = ("button_2" :> ShC)
    /\ sequence_mappings = << SeqMapping(<<"button_2", "button_3">>, ShD, "D") >>

\* exactly the releases of first and then second were handled, under one table
TwoEvents(first, second) ==
    /\ ~reloaded
    /\ Len(events) = 2
    /\ events[1].key = first
    /\ events[2].key = second

Gap == events[2].time - events[1].time

\* the sequence is, position by position, the key types of the tail of the view
SuffixOf(sequence, view) ==
    /\ Len(sequence) <= Len(view)
    /\ \A j \in 1..Len(sequence) : view[Len(view) - Len(sequence) + j][1] = sequence[j]

C2_SingleKeyDeferral ==
    (/\ is_listening /\ LoadedC /\ ~reloaded
     /\ Len(events) = 1 /\ events[1].key = "button_2"
     /\ timers = {})
        => /\ Len(execs) = 1
           /\ execs[1].action = ShC
           /\ execs[1].time >= events[1].time + SINGLE_KEY_DELAY

(***************************************************************************)
(* C3.  With button_2 -> C and [button_2, button_3] -> D loaded, a         *)
(* button_2 release and then a button_3 release before SINGLE_KEY_DELAY.   *)
(***************************************************************************)
\* C3: exactly one execution is made, of D at the button_3 release, and C is not
\* executed, whether or not the timer started for button_2 has run
C3_CancelOnCompose ==
    (LoadedCD /\ TwoEvents("button_2", "button_3") /\ Gap < SINGLE_KEY_DELAY)
        => /\ Len(execs) = 1
           /\ execs[1].action = ShD
           /\ execs[1].event = 2
           /\ \A i \in 1..Len(execs) : execs[i].action # ShC

C3_Witness ==
    /\ is_listening
    /\ LoadedCD /\ TwoEvents("button_2", "button_3") /\ Gap < SINGLE_KEY_DELAY
    /\ timers = {}
    /\ now >= events[1].time + SINGLE_KEY_DELAY
    /\ Len(execs) = 1 /\ execs[1].action = ShD /\ execs[1].ok

(***************************************************************************)
(* C4.  Window pruning.                                                    *)
(***************************************************************************)
\* C4: whenever handling a release reports a match, the releases that make up the
\* matched sequence are the last ones handled and none of them is older than
\* SEQUENCE_TIMEOUT at the time of the last one; so a sequence whose first button
\* is older than that is neither matched nor executed
C4_WindowPruning ==
    last_match.matched =>
        LET n == Len(events)
            sequence == last_match.mapping.sequence
            first == n - Len(sequence) + 1
        IN  /\ first >= 1
            /\ \A j \in first..n :
                   /\ events[j].key = sequence[j - first + 1]
                   /\ events[j].time >= events[n].time - SEQUENCE_TIMEOUT

\* a chord split by more than SEQUENCE_TIMEOUT was handled and did not match
C4_Witness ==
    /\ LoadedCD /\ TwoEvents("button_2", "button_3") /\ Gap > SEQUENCE_TIMEOUT
    /\ ~last_match.matched
    /\ key_history = << <<"button_3", events[2].time>> >>
    /\ execs = <<>>

(***************************************************************************)
(* C5.  Key press/release ordering of both executors.                      *)
(***************************************************************************)
\* C5: a successful execution of a shortcut with tokens k1..kn issues exactly the
\* 2n calls press(k1) .. press(kn), release(kn) .. release(k1), in this order, in
\* execute_shortcut and in execute_shortcut_fast alike
C5_PressReleaseOrder ==
    (ret.op \in {"execute_shortcut", "execute_shortcut_fast"} /\ ret.ok)
        => LET keys == ParseUncached(ret.arg).keys
               n == Len(keys)
           IN  /\ n >= 1
               /\ Len(calls) = 2 * n
               /\ \A i \in 1..n :
                      /\ calls[i] = Call("press", keys[i], TRUE)
                      /\ calls[n + i] = Call("release", keys[n + 1 - i], TRUE)
               /\ (ret.arg = ShB =>
                      calls = << Call("press", KeyTok("ctrl"), TRUE),
                                 Call("press", KeyTok("shift"), TRUE),
                                 Call("press", CharTok("c"), TRUE),
                                 Call("release", CharTok("c"), TRUE),
                                 Call("release", KeyTok("shift"), TRUE),
                                 Call("release", KeyTok("ctrl"), TRUE) >>)

C5_Witness ==
    /\ ret = Ret("execute_shortcut_fast", ShB, TRUE, FALSE)
    /\ Len(calls) = 6
    /\ ShB \in DOMAIN shortcut_cache

(***************************************************************************)
(* C6.  Idempotent lifecycle.                                              *)
(***************************************************************************)
StartCall == \E cfg \in 1..Len(Configs), storeRaises \in BOOLEAN : StartListener(cfg, storeRaises)

\* C6: start_listener while running returns success False, loads nothing, spawns no
\* thread and stays running; stop_listener while stopped returns success False and
\* changes neither the history, the pending record, the timers nor the flag
C6_IdempotentLifecycle ==
    [][ /\ (is_listening /\ StartCall) =>
              /\ ret' = Ret("start_listener", <<>>, FALSE, FALSE)
              /\ is_listening'
              /\ UNCHANGED <<button_mappings, sequence_mappings, listener_threads>>
        /\ (~is_listening /\ StopListener) =>
              /\ ret' = Ret("stop_listener", <<>>, FALSE, FALSE)
              /\ UNCHANGED <<key_history, pending_single_key, pending_timer,
                             timers, is_listening>> ]_vars

C6_Witness ==
    /\ ret = Ret("start_listener", <<>>, FALSE, FALSE)
    /\ is_listening
    /\ listener_threads = 1
    /\ LoadedCD

(***************************************************************************)
(* C7.  At most one pending single key in flight.                          *)
(***************************************************************************)
\* C7: at most one deferred single-key timer is started and neither fired nor cancelled
C7_AtMostOnePending == Cardinality(timers) <= 1

(***************************************************************************)
(* C8.  stop_listener from Running.                                        *)
(***************************************************************************)
\* C8: right after a successful stop the history is empty, no pending record and no
\* live timer remain, the state is Stopped, and no single-key action scheduled
\* before the stop is executed afterwards
C8_StopDiscardsPending ==
    /\ [][ (is_listening /\ StopListener) =>
              /\ ret' = Ret("stop_listener", <<>>, TRUE, FALSE)
              /\ ~is_listening'
              /\ key_history' = <<>>
              /\ pending_single_key' = None
              /\ pending_timer' = NoTimer
              /\ timers' = {} ]_vars
    /\ [](\A i \in 1..Len(execs) : execs[i].via = "single" => execs[i].event >= 1)

(***************************************************************************)
(* C9.  Longest-match priority of the matcher.                             *)
(***************************************************************************)
\* C9: when the matcher returns a mapping, no loaded sequence strictly longer than
\* the returned one also matches the tail of the last HistoryCap entries
C9_LongestMatch ==
    last_match.matched =>
        LET view == LastN(last_match.view, HistoryCap)
        IN  /\ SuffixOf(last_match.mapping.sequence, view)
            /\ \A i \in 1..Len(sequence_mappings) :
                   Len(sequence_mappings[i].sequence) > Len(last_match.mapping.sequence)
                       => ~SuffixOf(sequence_mappings[i].sequence, view)

\* a shorter sequence was stored before a longer one, both match, the longer is returned
C9_Witness ==
    /\ Len(mrecords) >= 2
    /\ Len(mrecords[1].sequence) = 1
    /\ Len(mrecords[2].sequence) = 2
    /\ SuffixOf(mrecords[1].sequence, key_history)
    /\ SuffixOf(mrecords[2].sequence, key_history)
    /\ last_match.matched
    /\ last_match.mapping.sequence = mrecords[2].sequence

(***************************************************************************)
(* C10.  A sequence match discards the whole history.                      *)
(***************************************************************************)
\* C10: whenever the last handled release produced a sequence match, the key history
\* is empty, whatever the outcome of executing the matched action
C10_MatchClearsHistory == last_match.matched => key_history = <<>>

(***************************************************************************)
(* C11.  The stored history window is size-bounded.                        *)
(***************************************************************************)
\* C11: after any sequence of button releases the key history holds at most
\* HistoryCap entries
C11_HistorySizeBounded == Len(key_history) <= HistoryCap

(***************************************************************************)
(* C12.  The active sequence list is sorted by length, longest first.      *)
(***************************************************************************)
\* C12: after every completed load the sequence list is in non-increasing order of
\* sequence length, whatever the order of the records in the configuration
C12_SortedByLengthDesc ==
    \A i \in 1..(Len(sequence_mappings) - 1) :
        Len(sequence_mappings[i].sequence) >= Len(sequence_mappings[i + 1].sequence)

\* a short sequence stored before a longer one was loaded, and the longer one is first
C12_Witness ==
    /\ ret = Ret("load_mappings", <<>>, TRUE, FALSE)
    /\ mrecords = <<RecA, RecC, RecB>>
    /\ sequence_mappings = << SeqMapping(<<"button_0", "button_1">>, ShB, "B"),
                              SeqMapping(<<"button_0">>, ShA, "A") >>

(***************************************************************************)
(* C13.  Atomic reload.                                                    *)
(***************************************************************************)
ReleaseHandled == \E b \in Buttons, failAt \in EngineFailPoints : OnClick(b, FALSE, failAt)

\* C13: whenever a button release is handled while load_mappings is under way, the
\* tables the handler reads are the complete old tables or the complete new ones
C13_AtomicReload ==
    [][ (ReleaseHandled /\ pc.loader.at # "idle")
            => CurrentTable \in {pc.loader.old, pc.loader.new} ]_vars

(***************************************************************************)
(* C14.  Mutual exclusion of the two callbacks.                            *)
(***************************************************************************)
\* C14: in no state is a button release half handled (appended to the history, not
\* yet matched) while the deferred-timer callback has been entered and not finished
C14_CallbacksExclusive == ~(pc.handler # None /\ pc.timer # NoTimer)

(***************************************************************************)
(* C15.  Race-free cancellation of the deferred single-key timer.          *)
(***************************************************************************)
\* a step that calls cancel_pending_single_key: a release that matches a sequence or
\* has a single-key mapping, or a successful stop_listener
CancellingStep ==
    \/ is_listening /\ StopListener
    \/ \E b \in Buttons, failAt \in EngineFailPoints :
           /\ OnClick(b, FALSE, failAt)
           /\ last_match'.matched \/ KeyType(b) \in DOMAIN button_mappings

\* C15: a cancellation that comes before the timer has fired prevents its callback
\* from running: after a cancelling step no timer started before the step is live,
\* the only timer that may be live is the one the step itself has started
C15_CancelPreventsCallback ==
    [][ CancellingStep =>
            /\ Cardinality(timers') <= 1
            /\ \A t \in timers' : t.deadline = now + SINGLE_KEY_DELAY ]_vars

(***************************************************************************)
(* C16.  Thread-safe lifecycle: concurrent start_listener calls.           *)
(***************************************************************************)
\* C16: of the start_listener calls issued at the same time while stopped, at most
\* one returns success True and at most one listener thread is spawned; once all
\* have returned, exactly one has returned success True
C16_OneStartWins ==
    /\ listener_threads <= 1
    /\ Cardinality({c \in Callers : pc.start[c] = "ok"}) <= 1
    /\ (\A c \in Callers : pc.start[c] \in {"ok", "fail"})
           => Cardinality({c \in Callers : pc.start[c] = "ok"}) = 1

(***************************************************************************)
(* C17.  The reload endpoint only rebuilds the mapping table.              *)
(***************************************************************************)
ReloadCall == \E cfg \in 1..Len(Configs), storeRaises \in BOOLEAN : Reload(cfg, storeRaises)

\* C17: a reload, whether the listener runs or not, leaves the key history, the
\* pending single-key record, the timers and the running flag as they were
C17_ReloadFrame ==
    [][ ReloadCall => UNCHANGED <<key_history, pending_single_key, pending_timer,
                                  timers, is_listening, listener_threads>> ]_vars

\* a reload ran after the button_2 release was recorded and left the table of CfgCD;
\* the chord D was completed by the button_3 release, and the timer started for
\* button_2 is still live
C17_Witness ==
    /\ is_listening
    /\ reloaded
    /\ LoadedCD
    /\ Len(events) = 2 /\ events[1].key = "button_2" /\ events[2].key = "button_3"
    /\ ret.op = "reload_mappings_endpoint"
    /\ last_match.matched
    /\ last_match.mapping.name = "D"
    /\ Len(last_match.view) = 2
    /\ Len(execs) = 1 /\ execs[1].action = ShD /\ execs[1].ok
    /\ timers # {}

(***************************************************************************)
(* C18.  Parsing is deterministic and cache-consistent.                    *)
(***************************************************************************)
\* C18: a parse of a valid shortcut that is served from the cache returns the token
\* list the first parse returned (the list an uncached parse builds), whatever was
\* parsed or executed in between; and the cache holds nothing else
C18_CacheConsistent ==
    /\ (ret.op = "_parse_shortcut" /\ ret.ok)
           => ret.keys = ParseUncached(ret.arg).keys
    /\ \A sh \in DOMAIN shortcut_cache :
           ParseUncached(sh).ok /\ shortcut_cache[sh] = ParseUncached(sh).keys

\* "Ctrl + C" was parsed again, from the cache, after other shortcuts were parsed
C18_Witness ==
    /\ ret.op = "_parse_shortcut"
    /\ ret.arg = ShCtrlCSpaced
    /\ ret.cached
    /\ ret.keys = <<KeyTok("ctrl"), CharTok("c")>>
    /\ {ShA, ShB, ShF13} \subseteq DOMAIN shortcut_cache

(***************************************************************************)
(* C19.  Parse rejects invalid input.                                      *)
(***************************************************************************)
\* an unknown multi-character token, alone or after a valid one; function keys
\* numbered 21 and 0; the empty string and a lone "+", which yield no token
InvalidShortcuts == {ShFoo, ShCtrlFoo, ShF21, ShF0, ShEmpty, ShPlus}

IsSequenceRecord(btn) ==
    ~btn.bad /\ btn.action # <<>> /\ btn.sequence # <<>> /\ btn.seqIsList

IsSingleKeyRecord(btn) ==
    /\ ~btn.bad /\ ~btn.unhashable
    /\ btn.action # <<>> /\ btn.keyType # ""
    /\ ~(btn.sequence # <<>> /\ btn.seqIsList)

SingleKeyRecords(key_type) ==
    {i \in 1..Len(mrecords) :
        IsSingleKeyRecord(mrecords[i]) /\ mrecords[i].keyType = key_type}

LastOf(indices) == CHOOSE i \in indices : \A j \in indices : j <= i

Occurrences(list, m) == Cardinality({i \in 1..Len(list) : list[i] = m})

AsMapping(btn) == SeqMapping(btn.sequence, btn.action, btn.name)

\* C20: after load_mappings has read the stored list, the sequence list holds
\* exactly the records with an action and a non-empty list sequence, and the
\* single-key map holds, per keyType, the action of the last record with an
\* action, that keyType and no such sequence; the call itself never raises
C20_LoadClassification ==
    (ret.op = "load_mappings" /\ ret.ok) =>
        /\ ~ret.raised
        /\ \A i \in 1..Len(mrecords) :
               IsSequenceRecord(mrecords[i]) =>
                   Occurrences(sequence_mappings, AsMapping(mrecords[i]))
                       = Occurrences([j \in 1..Len(mrecords) |->
                                         IF IsSequenceRecord(mrecords[j])
                                         THEN AsMapping(mrecords[j])
                                         ELSE NoMapping],
                                     AsMapping(mrecords[i]))
        /\ \A i \in 1..Len(sequence_mappings) :
               \E j \in 1..Len(mrecords) :
                   /\ IsSequenceRecord(mrecords[j])
                   /\ sequence_mappings[i] = AsMapping(mrecords[j])
        /\ \A key_type \in {KeyTypes[b + 1] : b \in Buttons} :
               IF SingleKeyRecords(key_type) = {}
               THEN key_type \notin DOMAIN button_mappings
               ELSE /\ key_type \in DOMAIN button_mappings
                    /\ button_mappings[key_type]
                           = mrecords[LastOf(SingleKeyRecords(key_type))].action

(***************************************************************************)
(* C21.  A load fully replaces the tables and is idempotent.               *)
(***************************************************************************)
\* C21: whatever was loaded before, a reload that reads a configuration leaves
\* exactly the tables of that configuration alone, nothing of the earlier load
\* survives, and reading the same configuration again changes nothing
C21_LoadReplaces ==
    [][ /\ (\E sr \in BOOLEAN : Reload(1, sr)) => (LoadedAB' \/ CurrentTable' = EmptyTable)
        /\ Reload(1, FALSE) => LoadedAB'
        /\ Reload(2, FALSE) => LoadedC'
        /\ Reload(3, FALSE) => LoadedCD'
        /\ \A cfg \in 1..Len(Configs) :
               (CurrentTable = load_mappings(Configs[cfg], FALSE) /\ Reload(cfg, FALSE))
                   => UNCHANGED <<button_mappings, sequence_mappings>> ]_vars

\* the listener was started with CfgAB, a button_0 release matched A, and a reload
\* then read CfgC: the sequences of CfgAB are gone
C21_Witness ==
    /\ is_listening
    /\ last_match.matched
    /\ last_match.mapping.name = "A"
    /\ reloaded
    /\ ret.op = "reload_mappings_endpoint"
    /\ LoadedC

(***************************************************************************)
(* C22.  Executor failure reporting, without retry.                        *)
(***************************************************************************)
\* C22: when the parse or a press/release call fails, execute_shortcut_fast returns
\* False and raises nothing, execute_shortcut raises, and in both the calls issued
\* are the planned calls up to the one that failed, each once and none after it
C22_FailureReported ==
    /\ (ret.op \in {"execute_shortcut", "execute_shortcut_fast"} /\ ret.ok)
           => ~ret.raised
    /\ (ret.op \in {"execute_shortcut", "execute_shortcut_fast"} /\ ~ret.ok)
           => LET planned == KeyCalls(ParseUncached(ret.arg).keys)
              IN  /\ ret.raised <=> ret.op = "execute_shortcut"
                  /\ Len(calls) <= Len(planned)
                  /\ \A i \in 1..Len(calls) :
                         /\ calls[i].op = planned[i].op
                         /\ calls[i].key = planned[i].key
                         /\ calls[i].ok <=> i < Len(calls)
                  /\ ParseUncached(ret.arg).ok => calls # <<>>

\* the second release of "ctrl+shift+c" raised inside execute_shortcut: five calls
\* were issued, the last one failed, and the error was raised
C22_Witness ==
    /\ ret = Ret("execute_shortcut", ShB, FALSE, TRUE)
    /\ Len(calls) = 5
    /\ calls[5] = Call("release", KeyTok("shift"), FALSE)

(***************************************************************************)
(* C23.  A failing shortcut does not stop the engine.                      *)
(***************************************************************************)
\* a step in which a shortcut is executed and the execution fails
FailedExecution == Len(execs') > Len(execs) /\ ~execs'[Len(execs')].ok

SomeExecutionFailed == \E i \in 1..Len(execs) : ~execs[i].ok

\* the release of button b is recorded and evaluated: it is logged, the window is
\* pruned, the matcher has answered for the window, a matched action is executed
\* at once and a single-key action gets its timer
HandledAsUsual(b) ==
    /\ events' = Append(events, [key |-> KeyType(b), time |-> now])
    /\ last_match'.view = RecordEvent(key_history, KeyType(b), now)
    /\ last_match'.mapping =
           MatchLoop(sequence_mappings, LastN(last_match'.view, HistoryCap)).mapping
    /\ last_match'.matched <=> last_match'.mapping # NoMapping
    /\ last_match'.matched =>
           /\ Len(execs') = Len(execs) + 1
           /\ execs'[Len(execs')].action = last_match'.mapping.action
           /\ execs'[Len(execs')].time = now
    /\ (~last_match'.matched /\ KeyType(b) \in DOMAIN button_mappings) =>
           \E t \in timers' : t.deadline = now + SINGLE_KEY_DELAY

\* C23: a step whose shortcut execution fails leaves the listener running, with its
\* thread alive and nothing reported to a caller, and every button release that
\* comes after a failed execution is recorded and evaluated as usual
C23_FailureContained ==
    [][ /\ FailedExecution => UNCHANGED <<is_listening, listener_threads, ret>>
        /\ \A b \in Buttons :
               (SomeExecutionFailed /\ \E failAt \in EngineFailPoints :
                                           OnClick(b, FALSE, failAt))
                   => HandledAsUsual(b) ]_vars

\* executing A at the button_0 release failed; the button_1 release that followed
\* was handled and matched B, which was executed
C23_Witness ==
    /\ is_listening /\ listener_threads = 1
    /\ LoadedAB /\ TwoEvents("button_0", "button_1")
    /\ Len(execs) = 2
    /\ ~execs[1].ok /\ execs[1].action = ShA
    /\ execs[2].ok /\ execs[2].action = ShB /\ execs[2].event = 2

(***************************************************************************)
(* C24.  Only release events are acted on.                                 *)
(***************************************************************************)
PressCallback == \E b \in Buttons, failAt \in EngineFailPoints : OnClick(b, TRUE, failAt)

\* C24: a callback with pressed = True changes neither the key history, the pending
\* record, the timers nor the tables and executes nothing; and whenever the button
\* handler has run (a release was logged), the callback had pressed = False
C24_OnlyReleases ==
    [][ /\ PressCallback =>
               UNCHANGED <<key_history, pending_single_key, pending_timer, timers,
                           execs, events, last_match, shortcut_cache,
                           button_mappings, sequence_mappings>>
        /\ Len(events') > Len(events) => ReleaseHandled ]_vars

\* the listener runs with a button_2 release in the history and its timer live: a
\* press callback can arrive in this state
C24_Witness ==
    /\ is_listening
    /\ key_history # <<>>
    /\ key_history[Len(key_history)][1] = "button_2"
    /\ timers # {}
    /\ ENABLED PressCallback

C26_SequencePriority ==
    [][ \A b \in Buttons :
            (/\ \E failAt \in EngineFailPoints : OnClick(b, FALSE, failAt)
             /\ last_match'.matched
             /\ KeyType(b) \in DOMAIN button_mappings)
                => /\ Len(execs') = Len(execs) + 1
                   /\ execs'[Len(execs')].action = last_match'.mapping.action
                   /\ execs'[Len(execs')].via = "sequence"
                   /\ execs'[Len(execs')].time = now
                   /\ execs'[Len(execs')].event = Len(events')
                   /\ timers' \subseteq timers
                   /\ pending_single_key' = None
                   /\ pending_timer' = NoTimer ]_vars

\* button_3 has the single-key action C and completes [button_2, button_3] -> D:
\* D alone was executed, at the release, and no timer exists
C26_Witness ==
    /\ mrecords = CfgBoth
    /\ "button_3" \in DOMAIN button_mappings
    /\ TwoEvents("button_2", "button_3")
    /\ last_match.matched /\ last_match.mapping.name = "D"
    /\ Len(execs) = 1
    /\ execs[1] = Exec(ShD, events[2].time, TRUE, "sequence", 2)
    /\ timers = {}
    /\ now >= events[2].time + SINGLE_KEY_DELAY

(***************************************************************************)
(* C27.  The matcher against a reference.                                  *)
(***************************************************************************)
\* the answer the statement describes: the first mapping, in list order, whose
\* sequence is a suffix of the key types of the view, with the view minus that
\* suffix; or no mapping, with the view
RefMatch(history, mappings) ==
    LET view == LastN(history, HistoryCap)
        fits == {i \in 1..Len(mappings) : SuffixOf(mappings[i].sequence, view)}
    IN  IF fits = {}
        THEN [mapping |-> NoMapping, remaining |-> view]
        ELSE LET first == CHOOSE i \in fits : \A j \in fits : i <= j
             IN  [mapping |-> mappings[first],
                  remaining |-> SubSeq(view, 1,
                                       Len(view) - Len(mappings[first].sequence))]

\* the same releases with other timestamps
Restamped(history) ==
    [i \in 1..Len(history) |-> <<history[i][1], history[i][2] + i * SEQUENCE_TIMEOUT>>]

\* HistoryCap older releases in front of the history
Older(history) == [i \in 1..HistoryCap |-> <<"button_1", 0>>] \o history

\* C27: check_sequence_match answers as the reference does, for the history of the
\* state, for the same releases with other timestamps and for a history longer
\* than HistoryCap; the timestamps do not change the mapping returned; the
\* history and the sequence list are left as they were
C27_MatcherReference ==
    /\ last_match.view = key_history
    /\ last_match.mapping = RefMatch(key_history, sequence_mappings).mapping
    /\ \A h \in {key_history, Restamped(key_history), Older(key_history)} :
           check_sequence_match(h, sequence_mappings) = RefMatch(h, sequence_mappings)
    /\ check_sequence_match(Restamped(key_history), sequence_mappings).mapping
           = last_match.mapping
    /\ TableIs(load_mappings(mrecords, FALSE))

\* three sequences are loaded: the first does not match the history, the second and
\* the third do, and the second is returned
C27_Witness ==
    /\ Len(key_history) = MaxHist
    /\ Len(sequence_mappings) = 3
    /\ ~SuffixOf(sequence_mappings[1].sequence, key_history)
    /\ SuffixOf(sequence_mappings[2].sequence, key_history)
    /\ SuffixOf(sequence_mappings[3].sequence, key_history)
    /\ sequence_mappings[3] # sequence_mappings[2]
    /\ last_match.matched
    /\ last_match.mapping = sequence_mappings[2]

(***************************************************************************)
(* C28.  The history time bound.                                           *)
(***************************************************************************)
\* C28: right after a release is handled, unless a match has emptied the window,
\* the history ends with that release, its timestamps never decrease from front
\* to back, and none is more than SEQUENCE_TIMEOUT older than the newest
C28_HistoryTimeBound ==
    [][ \A b \in Buttons :
            (/\ \E failAt \in EngineFailPoints : OnClick(b, FALSE, failAt)
             /\ ~(last_match'.matched /\ key_history' = <<>>))
                => /\ key_history' # <<>>
                   /\ key_history'[Len(key_history')] = <<KeyType(b), now>>
                   /\ \A i \in 1..(Len(key_history') - 1) :
                          key_history'[i][2] <= key_history'[i + 1][2]
                   /\ \A i \in 1..Len(key_history') :
                          key_history'[i][2] >= now - SEQUENCE_TIMEOUT ]_vars

\* two releases exactly SEQUENCE_TIMEOUT apart were handled without a match: the
\* older one is still in the history, in front of the newer one
C28_Witness ==
    /\ is_listening
    /\ Len(events) = 2
    /\ ~last_match.matched
    /\ key_history = << <<events[1].key, events[1].time>>,
                        <<events[2].key, events[2].time>> >>
    /\ events[2].time - events[1].time = SEQUENCE_TIMEOUT

(***************************************************************************)
(* C29.  Parser ordering and case-insensitivity.                           *)
(***************************************************************************)
\* the shortcut without its blanks and in lower case
Canonical(shortcut) ==
    Lower(SelectSeq(shortcut, LAMBDA c : c \notin Whitespace))

\* the token a part stands for, written out
TokenOf(part) ==
    IF \E n \in 1..20 : part = FText(n)
    THEN FKey(CHOOSE n \in 1..20 : part = FText(n))
    ELSE CASE part = <<"c","t","r","l">> -> KeyTok("ctrl")
           [] part = <<"s","h","i","f","t">> -> KeyTok("shift")
           [] part = <<"a","l","t">> -> KeyTok("alt")
           [] part = <<"e","n","t","e","r">> -> KeyTok("enter")
           [] part = <<"c">> -> CharTok("c")

NonEmptyParts(shortcut) == SelectSeq(SplitPlus(Canonical(shortcut)), LAMBDA q : q # <<>>)

\* C29: the parse of a valid shortcut succeeds and returns one token per non-empty
\* part, in the order written; the same shortcut in lower case and without blanks
\* gives the same list; f1 .. f20 each give their function key
C29_ParserOrdering ==
    ret.op = "_parse_shortcut" =>
        /\ ret.ok
        /\ Len(ret.keys) = Len(NonEmptyParts(ret.arg))
        /\ \A i \in 1..Len(ret.keys) : ret.keys[i] = TokenOf(NonEmptyParts(ret.arg)[i])
        /\ ret.keys = ParseUncached(Canonical(ret.arg)).keys

\* " F13\t+ SHIFT\t" written with blanks, and "F13+SHIFT" in upper case, parse to
\* the tokens f13, shift; the witness is the spaced one parsed a second time
C29_Witness ==
    /\ ret.op = "_parse_shortcut"
    /\ ret.arg = Styled("spaced", <<FText(13), <<"s","h","i","f","t">>>>)
    /\ ret.cached
    /\ ret.keys = <<FKey(13), KeyTok("shift")>>
    /\ ParseUncached(Styled("upper", <<FText(13), <<"s","h","i","f","t">>>>)).keys = ret.keys

\* C30: the parsed-shortcut cache is append-only: no step of the parser, the
\* executor, the handler, the loader, the reload endpoint, start_listener or
\* stop_listener removes a cached shortcut or changes the token list stored for
\* it; a step that returns from a failed parse leaves the cache as it was, and
\* only shortcuts that parse are ever added; every cached token list is
\* non-empty.
C30_CacheAppendOnly ==
    [][/\ \A s \in DOMAIN shortcut_cache :
              /\ s \in DOMAIN shortcut_cache'
              /\ shortcut_cache'[s] = shortcut_cache[s]
       /\ (ret' # ret /\ ret'.op = "_parse_shortcut" /\ ~ret'.ok)
              => shortcut_cache' = shortcut_cache
       /\ \A s \in DOMAIN shortcut_cache' \ DOMAIN shortcut_cache :
              ParseUncached(s).ok
       /\ \A s \in DOMAIN shortcut_cache' : shortcut_cache'[s] # <<>>]_vars

\* after a start and a stop the cache holds three shortcuts, one of them put
\* there by the handler and one by a direct call, and the last call was a parse
\* that failed
C30_Witness ==
    /\ Cardinality(DOMAIN shortcut_cache) >= 3
    /\ ShF13 \in DOMAIN shortcut_cache
    /\ ShD \in DOMAIN shortcut_cache
    /\ ret.op = "_parse_shortcut"
    /\ ~ret.ok
    /\ listener_threads > 0
    /\ ~is_listening

(***************************************************************************)
(* C31.  Keys stay down after a partial failure.                           *)
(***************************************************************************)
\* the positions of the key list whose press succeeded and whose release was not
\* issued with success: the keys that are down when the executor is left
StillDown(keys, issued) ==
    {i \in 1..Len(keys) :
        /\ i <= Len(issued) /\ issued[i].op = "press" /\ issued[i].ok
        /\ ~\E j \in (Len(keys) + 1)..Len(issued) :
               j = 2 * Len(keys) + 1 - i /\ issued[j].ok}

\* C31: when the press of the i-th token fails, the calls issued are the i presses
\* and nothing else: no further press, no release, and tokens 1..i-1 are still
\* down when the executor returns (fast) or raises; when the j-th release fails,
\* the releases after it are skipped and their tokens, with the one whose release
\* failed, are still down
C31_NoReleaseOnFailure ==
    (ret.op \in {"execute_shortcut", "execute_shortcut_fast"} /\ ~ret.ok
        /\ ParseUncached(ret.arg).ok)
        => LET keys == ParseUncached(ret.arg).keys
               n == Len(keys)
               f == Len(calls)
           IN  /\ f \in 1..(2 * n)
               /\ ~calls[f].ok
               /\ f <= n =>
                      /\ \A j \in 1..f : calls[j].op = "press" /\ calls[j].key = keys[j]
                      /\ StillDown(keys, calls) = 1..(f - 1)
               /\ f > n =>
                      /\ \A j \in (n + 1)..f :
                             calls[j].op = "release" /\ calls[j].key = keys[2 * n + 1 - j]
                      /\ StillDown(keys, calls) = 1..(2 * n + 1 - f)

\* the press of shift, second token of "ctrl+shift+c", failed in the fast executor:
\* two calls were issued and ctrl is still down
C31_Witness ==
    /\ ret = Ret("execute_shortcut_fast", ShB, FALSE, FALSE)
    /\ Len(calls) = 2
    /\ calls[2] = Call("press", KeyTok("shift"), FALSE)
    /\ StillDown(ParseUncached(ShB).keys, calls) = {1}

(***************************************************************************)
(* C32.  Stopped means quiescent.                                          *)
(***************************************************************************)
\* C32: while the listener is stopped (after a successful stop_listener and before
\* the next successful start_listener) no step, a delivered button release
\* included, executes a shortcut, schedules a deferred single key or puts an
\* entry into the key history
C32_StoppedQuiescent ==
    [][ (~is_listening /\ ~is_listening') =>
            /\ execs' = execs
            /\ timers' \subseteq timers
            /\ key_history' = <<>> ]_vars

(***************************************************************************)
(* C33.  One subscription across restarts.                                 *)
(***************************************************************************)
\* C33: after any sequence of start_listener, stop_listener and
\* reload_and_restart_listener calls at most one listener thread is alive, so that
\* a button release reaches the handler once
C33_SingleSubscription == listener_threads <= 1

(***************************************************************************)
(* C34.  A chord released in order inside one window is executed once.     *)
(***************************************************************************)
\* some loaded sequence is, position by position, the last releases among the
\* first k ones logged
MatchesAfter(k) ==
    \E q \in 1..Len(sequence_mappings) :
        /\ Len(sequence_mappings[q].sequence) \in 1..k
        /\ \A i \in 1..Len(sequence_mappings[q].sequence) :
               events[k - Len(sequence_mappings[q].sequence) + i].key
                   = sequence_mappings[q].sequence[i]

\* the releases logged since the history was empty are exactly the buttons of the
\* loaded sequence number m, of two buttons or more, in order and not more than
\* SEQUENCE_TIMEOUT apart, and no loaded sequence was complete before the last one
ChordReleased(m) ==
    /\ Len(sequence_mappings[m].sequence) >= 2
    /\ Len(events) = Len(sequence_mappings[m].sequence)
    /\ \A i \in 1..Len(events) : events[i].key = sequence_mappings[m].sequence[i]
    /\ events[Len(events)].time - events[1].time <= SEQUENCE_TIMEOUT
    /\ \A k \in 1..(Len(events) - 1) : ~MatchesAfter(k)

\* C34: after a chord was released the action of its sequence has been executed
\* exactly once, by the handler of the last release and at its time, and no other
\* sequence action has; when none of the earlier buttons has a single-key mapping
\* nothing else was executed at all
C34_ChordCompletion ==
    \A m \in 1..Len(sequence_mappings) :
        ChordReleased(m) =>
            /\ Cardinality({i \in 1..Len(execs) : execs[i].via = "sequence"}) = 1
            /\ \A i \in 1..Len(execs) :
                   execs[i].via = "sequence" =>
                       /\ execs[i].action = sequence_mappings[m].action
                       /\ execs[i].event = Len(events)
                       /\ execs[i].time = events[Len(events)].time
            /\ (\A j \in 1..(Len(events) - 1) : events[j].key \notin DOMAIN button_mappings)
                   => Len(execs) = 1

\* button_2, which has no single-key mapping, and then button_3 were released
\* SEQUENCE_TIMEOUT apart: D was executed at the second release and nothing else
C34_Witness ==
    /\ mrecords = CfgBoth
    /\ \E m \in 1..Len(sequence_mappings) :
           ChordReleased(m) /\ sequence_mappings[m].action = ShD
    /\ events[2].time - events[1].time = SEQUENCE_TIMEOUT
    /\ "button_2" \notin DOMAIN button_mappings
    /\ execs = <<Exec(ShD, events[2].time, TRUE, "sequence", 2)>>

(***************************************************************************)
(* C35.  A load whose configuration read raises empties the tables.        *)
(***************************************************************************)
\* C35: when load_buttons() raises inside the load of a reload or of a start, the
\* call still returns normally (the reload with success, the start with the
\* listener running) and both the single-key map and the sequence list are empty
\* afterwards, whatever they held before
C35_LoadFailureEmpties ==
    [][ \A cfg \in 1..Len(Configs) :
            /\ Reload(cfg, TRUE) =>
                   /\ button_mappings' = EmptyMap
                   /\ sequence_mappings' = <<>>
                   /\ ret' = Ret("reload_mappings_endpoint", <<>>, TRUE, FALSE)
            /\ (~is_listening /\ StartListener(cfg, TRUE)) =>
                   /\ button_mappings' = EmptyMap
                   /\ sequence_mappings' = <<>>
                   /\ ret' = Ret("start_listener", <<>>, TRUE, FALSE)
                   /\ is_listening' ]_vars

\* a sequence of the loaded configuration had matched a release, so the tables
\* were not empty, and the reload that followed left both empty: every
\* configuration has mappings, so this reload failed to read its own
C35_Witness ==
    /\ is_listening
    /\ last_match.matched
    /\ reloaded
    /\ ret = Ret("reload_mappings_endpoint", <<>>, TRUE, FALSE)
    /\ button_mappings = EmptyMap
    /\ sequence_mappings = <<>>

(***************************************************************************)
(* C36.  Equal sequences: the record that comes first in the configuration *)
(* wins.                                                                   *)
(***************************************************************************)
\* the records of the configuration that have the sequence the matcher returned
SameSequenceRecords ==
    {i \in 1..Len(mrecords) :
        IsSequenceRecord(mrecords[i])
            /\ mrecords[i].sequence = last_match.mapping.sequence}

\* the sequence mappings of length n, in the order of list
OfLength(list, n) == SelectSeq(list, LAMBDA m : Len(m.sequence) = n)

\* C36: the mapping the matcher returns is the one of the first record of the
\* configuration that has the returned sequence, so of two records with the same
\* sequence and different actions the earlier one wins; the loaded list keeps the
\* sequences of one length in the order of the configuration
C36_TieBreak ==
    /\ last_match.matched =>
           /\ SameSequenceRecords # {}
           /\ \E i \in SameSequenceRecords :
                  /\ \A j \in SameSequenceRecords : i <= j
                  /\ last_match.mapping = AsMapping(mrecords[i])
    /\ \A n \in 1..MaxSeqLen :
           OfLength(sequence_mappings, n)
               = OfLength([i \in 1..Len(mrecords) |-> AsMapping(mrecords[i])], n)

\* the configuration lists [button_0] -> b, the longer [button_0, button_0] -> d
\* and [button_0] -> a; the sort moved d to the front, one button_0 release was
\* matched, and b, listed before a, was returned
C36_Witness ==
    /\ Len(mrecords) = 3
    /\ mrecords[1].name = "b" /\ mrecords[2].name = "d" /\ mrecords[3].name = "a"
    /\ sequence_mappings[1].name = "d"
    /\ Len(key_history) = 1
    /\ last_match.matched
    /\ last_match.mapping = SeqMapping(<<"button_0">>, ShB, "b")

====
